---- MODULE Spec2Model ----
(***************************************************************************)
(* Verification model of crdant/replicated-mcp-server.                     *)
(*                                                                         *)
(*   - pkg/models: the four entity validators (Application, Release,       *)
(*     Channel, Customer), checked under SpecValidate;                     *)
(*   - pkg/api: the transport client and the entity services, and          *)
(*     pkg/mcp: the tool handlers, checked under Spec.                     *)
(*                                                                         *)
(* Go strings are sequences of one-character strings, time.Time is a       *)
(* natural number (0 is the zero time, Before is <), and a                 *)
(* map[string]string is a function.                                        *)
(***************************************************************************)
EXTENDS Integers, Sequences, FiniteSets, TLC

VARIABLES
    ent,        \* SpecValidate: the entity under validation, [kind, val]
    verr,       \* SpecValidate: what Validate returned (Nil or an error)
    vpc,        \* SpecValidate: "ready" before the call, "done" after it
    call,       \* Spec: the operation or tool call being served, with its arguments
    server,     \* Spec: how the vendor API answers the requests of this call
    wire,       \* Spec: the HTTP requests that reached the transport during this call
    outcome,    \* Spec: what the call returned, [val, err]
    logs,       \* Spec: the records the call wrote to the logger
    svc,        \* Spec: the client operations the handler invoked
    pc,         \* Spec: "idle" before a call, "done" after it
    running,    \* SpecConcurrent: the frame of each goroutine that serves a tool call
    shared,     \* SpecConcurrent: the fields of Server and Client all handlers share
    proc,       \* SpecProcess: the server process, from main to exit
    stdout,     \* SpecProcess: what was written to standard output, in order
    stderr      \* SpecProcess: what was written to standard error, in order

vars ==
    <<ent, verr, vpc, call, server, wire, outcome, logs, svc, pc, running, shared,
      proc, stdout, stderr>>

\* a nil error
Nil == <<>>

\* a nil *time.Time; a non-nil one pointing at time t is <<t>>
NilTime == <<>>

-----------------------------------------------------------------------------
(* Strings *)

Digits == {"0", "1", "2", "3", "4", "5", "6", "7", "8", "9"}

LowerLetters ==
    {"a", "b", "c", "d", "e", "f", "g", "h", "i", "j", "k", "l", "m",
     "n", "o", "p", "q", "r", "s", "t", "u", "v", "w", "x", "y", "z"}

UpperLetters ==
    {"A", "B", "C", "D", "E", "F", "G", "H", "I", "J", "K", "L", "M",
     "N", "O", "P", "Q", "R", "S", "T", "U", "V", "W", "X", "Y", "Z"}

\* strings.Repeat(c, n)
Repeat(c, n) == [i \in 1..n |-> c]

\* strings.HasPrefix / strings.HasSuffix for a one-character affix
HasPrefix(s, c) == Len(s) > 0 /\ s[1] = c

HasSuffix(s, c) == Len(s) > 0 /\ s[Len(s)] = c

\* strings.Split(s, sep) for a one-character separator
RECURSIVE Split(_, _)
Split(s, sep) ==
    IF \A i \in 1..Len(s) : s[i] # sep
    THEN <<s>>
    ELSE LET k == CHOOSE i \in 1..Len(s) :
                      s[i] = sep /\ \A j \in 1..(i - 1) : s[j] # sep
         IN  <<SubSeq(s, 1, k - 1)>> \o Split(SubSeq(s, k + 1, Len(s)), sep)

\* strings.Contains(s, c) for a one-character c
ContainsChar(s, c) == \E i \in 1..Len(s) : s[i] = c

\* membership of a message in a []string
Has(msgs, m) == \E i \in 1..Len(msgs) : msgs[i] = m

-----------------------------------------------------------------------------
(* pkg/models: validation constants *)

MaxNameLength == 255
MaxDescriptionLength == 1000
MaxNotesLength == 10000
MaxKeyLength == 100
MaxValueLength == 500
MaxChannelNameLength == 100
MaxChannelDescriptionLength == 500
MaxCustomerNameLength == 255
EmailParts == 2

validReleaseStatuses == {"draft", "released", "archived", "superseded"}

validCustomerTypes == {"trial", "paid", "community", "development"}

validLicenseTypes == {"trial", "paid", "community", "development", "embedded"}

\* the error value fmt.Errorf builds from the collected messages
\* (the lines of its text: the heading, then one line per message)
ValidationError(entity, msgs) ==
    IF Len(msgs) > 0 THEN <<entity>> \o msgs ELSE Nil

-----------------------------------------------------------------------------
(* pkg/models: Application *)

\* an isValidSlug that does not look at the last character's hyphen
isValidSlug_TrailingHyphen(slug) ==
    IF slug = <<>> THEN FALSE
    ELSE IF \E i \in 1..Len(slug) :
                /\ slug[i] \notin LowerLetters
                /\ slug[i] \notin Digits
                /\ slug[i] # "-"
         THEN FALSE
         ELSE ~HasPrefix(slug, "-")

\* isValidSlug
isValidSlug(slug) ==
    IF slug = <<>> THEN FALSE
    ELSE IF \E i \in 1..Len(slug) :
                /\ slug[i] \notin LowerLetters
                /\ slug[i] \notin Digits
                /\ slug[i] # "-"
         THEN FALSE
         ELSE ~HasPrefix(slug, "-") /\ ~HasSuffix(slug, "-")

\* Application.Validate
Application_Validate(a) ==
    LET e1 == IF a.ID = <<>> THEN <<"application ID is required">> ELSE <<>>
        e2 == IF a.Name = <<>> THEN <<"application name is required">>
              ELSE IF Len(a.Name) > MaxNameLength
                   THEN <<"application name must be 255 characters or less">>
                   ELSE <<>>
        e3 == IF a.Slug = <<>> THEN <<"application slug is required">>
              ELSE IF ~isValidSlug(a.Slug)
                   THEN <<"application slug must contain only lowercase letters, numbers, and hyphens">>
                   ELSE <<>>
        e4 == IF a.TeamID = <<>> THEN <<"team ID is required">> ELSE <<>>
        e5 == IF a.CreatedAt = 0 THEN <<"created_at timestamp is required">> ELSE <<>>
        e6 == IF a.UpdatedAt = 0 THEN <<"updated_at timestamp is required">> ELSE <<>>
        e7 == IF a.CreatedAt # 0 /\ a.UpdatedAt # 0 /\ a.UpdatedAt < a.CreatedAt
              THEN <<"updated_at must be equal to or after created_at">> ELSE <<>>
        e8 == IF a.Description # <<>> /\ Len(a.Description) > MaxDescriptionLength
              THEN <<"application description must be 1000 characters or less">>
              ELSE <<>>
    IN  ValidationError("application validation errors:", e1 \o e2 \o e3 \o e4 \o e5 \o e6 \o e7 \o e8)

-----------------------------------------------------------------------------
(* pkg/models: key/value maps.  Go iterates a map in an unspecified order: *)
(* `order` is the order in which this call happens to visit the keys.      *)

\* all orders in which the keys of a map can be visited
Orders(kvMap) ==
    {o \in [1..Cardinality(DOMAIN kvMap) -> DOMAIN kvMap] :
        \A i, j \in DOMAIN o : i # j => o[i] # o[j]}

\* the body of the range loop for one key
RECURSIVE KeyValueErrors(_, _, _, _, _, _)
KeyValueErrors(kvMap, order, i, emptyMsg, keyMsg, valueMsg) ==
    IF i > Len(order) THEN <<>>
    ELSE LET key == order[i]
             value == kvMap[key]
         IN  (IF key = <<>> THEN <<emptyMsg>> ELSE <<>>)
             \o (IF Len(key) > MaxKeyLength THEN <<keyMsg>> ELSE <<>>)
             \o (IF Len(value) > MaxValueLength THEN <<valueMsg>> ELSE <<>>)
             \o KeyValueErrors(kvMap, order, i + 1, emptyMsg, keyMsg, valueMsg)

\* validateKeyValueMap, fieldType "metadata"
validateKeyValueMap(kvMap, order) ==
    KeyValueErrors(kvMap, order, 1,
                   "metadata keys cannot be empty",
                   "metadata keys must be 100 characters or less",
                   "metadata values must be 500 characters or less")

-----------------------------------------------------------------------------
(* pkg/models: Release *)

IsAlnumHyphen(c) == c \in Digits \/ c \in LowerLetters \/ c \in UpperLetters \/ c = "-"

\* (0|[1-9]\d*)
NumericIdentifier(s) ==
    /\ Len(s) > 0
    /\ \A i \in 1..Len(s) : s[i] \in Digits
    /\ (Len(s) > 1 => s[1] # "0")

\* (0|[1-9]\d*|\d*[a-zA-Z-][0-9a-zA-Z-]*)
PrereleaseIdentifier(s) ==
    \/ NumericIdentifier(s)
    \/ /\ Len(s) > 0
       /\ \A i \in 1..Len(s) : IsAlnumHyphen(s[i])
       /\ \E i \in 1..Len(s) : s[i] \notin Digits

\* [0-9a-zA-Z-]+
BuildIdentifier(s) == Len(s) > 0 /\ \A i \in 1..Len(s) : IsAlnumHyphen(s[i])

\* the first position of s at or after `from` holding a character of cs, or Len(s)+1
FirstOf(s, cs, from) ==
    IF \E i \in from..Len(s) : s[i] \in cs
    THEN CHOOSE i \in from..Len(s) :
             s[i] \in cs /\ \A j \in from..(i - 1) : s[j] \notin cs
    ELSE Len(s) + 1

\* semVerRegex.MatchString: the core runs to the first '-' or '+', a
\* pre-release from a '-' to the first '+', the build metadata from the '+'
isValidSemanticVersion(version) ==
    LET i == FirstOf(version, {"-", "+"}, 1)
        core == Split(SubSeq(version, 1, i - 1), ".")
        hasPre == i <= Len(version) /\ version[i] = "-"
        j == IF hasPre THEN FirstOf(version, {"+"}, i + 1) ELSE i
        pre == Split(SubSeq(version, i + 1, j - 1), ".")
        hasBuild == j <= Len(version)
        build == Split(SubSeq(version, j + 1, Len(version)), ".")
    IN  /\ Len(core) = 3
        /\ \A k \in 1..3 : NumericIdentifier(core[k])
        /\ hasPre => \A k \in 1..Len(pre) : PrereleaseIdentifier(pre[k])
        /\ hasBuild => \A k \in 1..Len(build) : BuildIdentifier(build[k])

\* isValidReleaseStatus
isValidReleaseStatus(status) == status \in validReleaseStatuses

\* Release.validateBasicFields
Release_validateBasicFields(r) ==
    (IF r.ID = <<>> THEN <<"release ID is required">> ELSE <<>>)
    \o (IF r.ApplicationID = <<>> THEN <<"application ID is required">> ELSE <<>>)
    \o (IF r.Version = <<>> THEN <<"release version is required">>
        ELSE IF ~isValidSemanticVersion(r.Version)
             THEN <<"release version must follow semantic versioning format (e.g., 1.0.0)">>
             ELSE <<>>)
    \o (IF r.Sequence < 0 THEN <<"release sequence must be non-negative">> ELSE <<>>)
    \o (IF r.Status = "" THEN <<"release status is required">>
        ELSE IF ~isValidReleaseStatus(r.Status)
             THEN <<"invalid release status">>
             ELSE <<>>)

\* Release.validateTimestamps
Release_validateTimestamps(r) ==
    (IF r.CreatedAt = 0 THEN <<"created_at timestamp is required">> ELSE <<>>)
    \o (IF r.UpdatedAt = 0 THEN <<"updated_at timestamp is required">> ELSE <<>>)
    \o (IF r.CreatedAt # 0 /\ r.UpdatedAt # 0 /\ r.UpdatedAt < r.CreatedAt
        THEN <<"updated_at must be equal to or after created_at">> ELSE <<>>)
    \o (IF r.ReleasedAt # NilTime /\ r.ReleasedAt[1] < r.CreatedAt
        THEN <<"released_at must be equal to or after created_at">> ELSE <<>>)
    \o (IF r.Status = "released" /\ r.ReleasedAt = NilTime
        THEN <<"released_at is required when status is 'released'">> ELSE <<>>)

\* Release.validateOptionalFields
Release_validateOptionalFields(r, order) ==
    (IF r.Notes # <<>> /\ Len(r.Notes) > MaxNotesLength
     THEN <<"release notes must be 10000 characters or less">> ELSE <<>>)
    \o validateKeyValueMap(r.Metadata, order)

\* a Release.Validate that stops at the first group of checks that fails
Release_Validate_FailFast(r, order) ==
    IF Release_validateBasicFields(r) # <<>>
    THEN ValidationError("release validation errors:", Release_validateBasicFields(r))
    ELSE IF Release_validateTimestamps(r) # <<>>
         THEN ValidationError("release validation errors:", Release_validateTimestamps(r))
         ELSE ValidationError("release validation errors:",
                              Release_validateOptionalFields(r, order))

\* Release.Validate
Release_Validate(r, order) ==
    ValidationError("release validation errors:",
        Release_validateBasicFields(r)
        \o Release_validateTimestamps(r)
        \o Release_validateOptionalFields(r, order))

-----------------------------------------------------------------------------
(* pkg/models: Channel *)

\* isValidChannelSlug
isValidChannelSlug(slug) ==
    IF slug = <<>> THEN FALSE
    ELSE IF \E i \in 1..Len(slug) :
                /\ slug[i] \notin LowerLetters
                /\ slug[i] \notin Digits
                /\ slug[i] # "-"
         THEN FALSE
         ELSE ~HasPrefix(slug, "-") /\ ~HasSuffix(slug, "-")

\* Channel.validateBasicFields
Channel_validateBasicFields(c) ==
    (IF c.ID = <<>> THEN <<"channel ID is required">> ELSE <<>>)
    \o (IF c.ApplicationID = <<>> THEN <<"application ID is required">> ELSE <<>>)
    \o (IF c.Name = <<>> THEN <<"channel name is required">>
        ELSE IF Len(c.Name) > MaxChannelNameLength
             THEN <<"channel name must be 100 characters or less">>
             ELSE <<>>)
    \o (IF c.ChannelSlug = <<>> THEN <<"channel slug is required">>
        ELSE IF ~isValidChannelSlug(c.ChannelSlug)
             THEN <<"channel slug must contain only lowercase letters, numbers, and hyphens">>
             ELSE <<>>)

\* a Channel.validateTimestamps that accepts is_archived without archived_at
Channel_validateTimestamps_ArchivedAtOptional(c) ==
    (IF c.CreatedAt = 0 THEN <<"created_at timestamp is required">> ELSE <<>>)
    \o (IF c.UpdatedAt = 0 THEN <<"updated_at timestamp is required">> ELSE <<>>)
    \o (IF c.CreatedAt # 0 /\ c.UpdatedAt # 0 /\ c.UpdatedAt < c.CreatedAt
        THEN <<"updated_at must be equal to or after created_at">> ELSE <<>>)
    \o (IF c.ArchivedAt # NilTime
        THEN (IF c.ArchivedAt[1] < c.CreatedAt
              THEN <<"archived_at must be equal to or after created_at">> ELSE <<>>)
             \o (IF ~c.IsArchived
                 THEN <<"is_archived must be true when archived_at is set">> ELSE <<>>)
        ELSE <<>>)

\* Channel.validateTimestamps
Channel_validateTimestamps(c) ==
    (IF c.CreatedAt = 0 THEN <<"created_at timestamp is required">> ELSE <<>>)
    \o (IF c.UpdatedAt = 0 THEN <<"updated_at timestamp is required">> ELSE <<>>)
    \o (IF c.CreatedAt # 0 /\ c.UpdatedAt # 0 /\ c.UpdatedAt < c.CreatedAt
        THEN <<"updated_at must be equal to or after created_at">> ELSE <<>>)
    \o (IF c.ArchivedAt # NilTime
        THEN (IF c.ArchivedAt[1] < c.CreatedAt
              THEN <<"archived_at must be equal to or after created_at">> ELSE <<>>)
             \o (IF ~c.IsArchived
                 THEN <<"is_archived must be true when archived_at is set">> ELSE <<>>)
        ELSE <<>>)
    \o (IF c.IsArchived /\ c.ArchivedAt = NilTime
        THEN <<"archived_at is required when is_archived is true">> ELSE <<>>)

\* Channel.validateReleaseRelationship
Channel_validateReleaseRelationship(c) ==
    (IF c.ReleaseID # <<>> /\ c.ReleaseSequence <= 0
     THEN <<"release_sequence must be positive when release_id is provided">> ELSE <<>>)
    \o (IF c.ReleaseID = <<>> /\ c.ReleaseSequence > 0
        THEN <<"release_id is required when release_sequence is provided">> ELSE <<>>)

\* Channel.validateOptionalFields
Channel_validateOptionalFields(c) ==
    IF c.Description # <<>> /\ Len(c.Description) > MaxChannelDescriptionLength
    THEN <<"channel description must be 500 characters or less">> ELSE <<>>

\* Channel.Validate
Channel_Validate(c) ==
    ValidationError("channel validation errors:",
        Channel_validateBasicFields(c)
        \o Channel_validateTimestamps(c)
        \o Channel_validateReleaseRelationship(c)
        \o Channel_validateOptionalFields(c))

-----------------------------------------------------------------------------
(* pkg/models: Customer *)

\* isValidCustomerType
isValidCustomerType(customerType) == customerType \in validCustomerTypes

\* isValidLicenseType
isValidLicenseType(licenseType) == licenseType \in validLicenseTypes

\* isValidEmail without the test for a dot in the domain
isValidEmail_NoDomainDot(email) ==
    LET parts == Split(email, "@")
    IN  IF Len(parts) # EmailParts THEN FALSE
        ELSE ~(parts[1] = <<>> \/ parts[2] = <<>>)

\* an isValidEmail that accepts more than one '@'
isValidEmail_ManyAts(email) ==
    LET parts == Split(email, "@")
    IN  IF Len(parts) < EmailParts THEN FALSE
        ELSE IF parts[1] = <<>> \/ parts[Len(parts)] = <<>> THEN FALSE
             ELSE ContainsChar(parts[Len(parts)], ".")

\* isValidEmail
isValidEmail(email) ==
    LET parts == Split(email, "@")
    IN  IF Len(parts) # EmailParts THEN FALSE
        ELSE IF parts[1] = <<>> \/ parts[2] = <<>> THEN FALSE
             ELSE ContainsChar(parts[2], ".")

\* Customer.Validate
Customer_Validate(c, entOrder, cfOrder) ==
    ValidationError("customer validation errors:",
        (IF c.ID = <<>> THEN <<"customer ID is required">> ELSE <<>>)
        \o (IF c.ApplicationID = <<>> THEN <<"application ID is required">> ELSE <<>>)
        \o (IF c.Name = <<>> THEN <<"customer name is required">>
            ELSE IF Len(c.Name) > MaxCustomerNameLength
                 THEN <<"customer name must be 255 characters or less">>
                 ELSE <<>>)
        \o (IF c.Email # <<>> /\ ~isValidEmail(c.Email)
            THEN <<"customer email must be a valid email address">> ELSE <<>>)
        \o (IF c.ChannelID = <<>> THEN <<"channel ID is required">> ELSE <<>>)
        \o (IF c.Type = "" THEN <<"customer type is required">>
            ELSE IF ~isValidCustomerType(c.Type)
                 THEN <<"invalid customer type">>
                 ELSE <<>>)
        \o (IF c.LicenseID = <<>> THEN <<"license ID is required">> ELSE <<>>)
        \o (IF c.LicenseType = "" THEN <<"license type is required">>
            ELSE IF ~isValidLicenseType(c.LicenseType)
                 THEN <<"invalid license type">>
                 ELSE <<>>)
        \o (IF c.CreatedAt = 0 THEN <<"created_at timestamp is required">> ELSE <<>>)
        \o (IF c.UpdatedAt = 0 THEN <<"updated_at timestamp is required">> ELSE <<>>)
        \o (IF c.CreatedAt # 0 /\ c.UpdatedAt # 0 /\ c.UpdatedAt < c.CreatedAt
            THEN <<"updated_at must be equal to or after created_at">> ELSE <<>>)
        \o (IF c.ArchivedAt # NilTime
            THEN (IF c.ArchivedAt[1] < c.CreatedAt
                  THEN <<"archived_at must be equal to or after created_at">> ELSE <<>>)
                 \o (IF ~c.IsArchived
                     THEN <<"is_archived must be true when archived_at is set">> ELSE <<>>)
            ELSE <<>>)
        \o (IF c.IsArchived /\ c.ArchivedAt = NilTime
            THEN <<"archived_at is required when is_archived is true">> ELSE <<>>)
        \o (IF c.ExpiresAt # NilTime /\ c.ExpiresAt[1] < c.CreatedAt
            THEN <<"expires_at must be equal to or after created_at">> ELSE <<>>)
        \o KeyValueErrors(c.Entitlements, entOrder, 1,
                          "entitlement keys cannot be empty",
                          "entitlement keys must be 100 characters or less",
                          "entitlement values must be 500 characters or less")
        \o KeyValueErrors(c.CustomFields, cfOrder, 1,
                          "custom field keys cannot be empty",
                          "custom field keys must be 100 characters or less",
                          "custom field values must be 500 characters or less"))

-----------------------------------------------------------------------------
(* The entities the validators are run on: a valid entity of each kind     *)
(* with at most MaxDefects of its fields replaced by other values.         *)

MaxDefects == 2

Str1 == <<"a">>
LongKey == Repeat("k", MaxKeyLength + 1)
LongValue == Repeat("v", MaxValueLength + 1)

\* map[string]string values: nil, and maps with a good, an empty or a long
\* key, a long value, and two offending entries at once
SampleMaps ==
    { <<>>,
      (<<"k">> :> <<"v">>),
      (<<>> :> <<"v">>),
      (LongKey :> <<"v">>),
      (<<"k">> :> LongValue),
      (Repeat("k", MaxKeyLength) :> Repeat("v", MaxValueLength)),
      ((<<>> :> <<"v">>) @@ (<<"k">> :> LongValue)) }

SampleSlugs ==
    { <<>>, <<"a">>, <<"-", "a">>, <<"a", "-">>, <<"A">>, <<"a", "_", "b">>,
      <<"a", "-", "1">>, <<"-">>, <<"a", " ">> }

SampleVersions ==
    { <<>>,
      <<"1", ".", "0">>,
      <<"v", "1", ".", "0", ".", "0">>,
      <<"0", "1", ".", "0", ".", "0">>,
      <<"1", ".", "0", ".", "0", "-", "b", "e", "t", "a", ".", "1">>,
      <<"1", ".", "0", ".", "0", "+", "2", "0">>,
      <<"1", ".", "0", ".", "0", "-">>,
      <<"1", ".", "0", ".", "0", "-", "0", "1">>,
      <<"1", ".", "0", ".", "0", "+">>,
      <<"1", ".", "0", ".", "0", "-", "a", "+", "b", "-", "c">>,
      <<"1", ".", "0", ".", "0", ".", "0">>,
      <<"1", ".", "0", ".", "0", "+", "a", "+", "b">>,
      <<"1", "0", ".", "2", ".", "3">> }

SampleEmails ==
    { <<>>,
      <<"t", "e", "x", ".", "c">>,
      <<"t", "@", "@", "e", ".", "c">>,
      <<"t", "@">>,
      <<"@", "e", ".", "c">>,
      <<"t", "@", "e">>,
      <<"t", "@", "e", "@", "x", ".", "c">>,
      <<"t", ".", "u", "@", "e">> }

BaseApplication ==
    [ID |-> Str1, Name |-> <<"A", "p", "p">>, Slug |-> <<"a", "p", "p">>, TeamID |-> <<"t">>,
     TeamName |-> <<>>, CreatedAt |-> 2, UpdatedAt |-> 2, Description |-> <<"d">>,
     Icon |-> <<>>, IsActive |-> TRUE]

ApplicationAlternatives ==
    [ID |-> {<<>>},
     Name |-> {<<>>, Repeat("n", MaxNameLength), Repeat("n", MaxNameLength + 1)},
     Slug |-> SampleSlugs,
     TeamID |-> {<<>>},
     CreatedAt |-> {0, 3},
     UpdatedAt |-> {0, 1, 3},
     Description |-> {<<>>, Repeat("d", MaxDescriptionLength),
                      Repeat("d", MaxDescriptionLength + 1)}]

BaseRelease ==
    [ID |-> Str1, ApplicationID |-> Str1, Version |-> <<"1", ".", "0", ".", "0">>,
     Sequence |-> 1, CreatedAt |-> 2, UpdatedAt |-> 2, ReleasedAt |-> NilTime,
     Notes |-> <<>>, Metadata |-> <<>>, IsRequired |-> FALSE, IsPrerelease |-> FALSE,
     Status |-> "draft", Config |-> <<>>]

ReleaseAlternatives ==
    [ID |-> {<<>>},
     ApplicationID |-> {<<>>},
     Version |-> SampleVersions,
     Sequence |-> {-1, 0},
     CreatedAt |-> {0, 3},
     UpdatedAt |-> {0, 1, 3},
     ReleasedAt |-> {<<0>>, <<1>>, <<2>>},
     Notes |-> {Repeat("n", MaxNotesLength), Repeat("n", MaxNotesLength + 1)},
     Metadata |-> SampleMaps,
     Status |-> {"", "released", "archived", "superseded", "bogus"}]

BaseChannel ==
    [ID |-> Str1, ApplicationID |-> Str1, Name |-> <<"S", "t">>, Description |-> <<>>,
     ReleaseID |-> <<>>, ReleaseSequence |-> 0, CreatedAt |-> 2, UpdatedAt |-> 2,
     ArchivedAt |-> NilTime, IsDefault |-> FALSE, IsArchived |-> FALSE,
     ChannelSlug |-> <<"s", "t">>]

ChannelAlternatives ==
    [ID |-> {<<>>},
     ApplicationID |-> {<<>>},
     Name |-> {<<>>, Repeat("n", MaxChannelNameLength),
               Repeat("n", MaxChannelNameLength + 1)},
     Description |-> {Repeat("d", MaxChannelDescriptionLength),
                      Repeat("d", MaxChannelDescriptionLength + 1)},
     ReleaseID |-> {<<"r">>},
     ReleaseSequence |-> {-1, 1},
     CreatedAt |-> {0, 3},
     UpdatedAt |-> {0, 1, 3},
     ArchivedAt |-> {<<0>>, <<1>>, <<2>>},
     IsArchived |-> {TRUE},
     ChannelSlug |-> SampleSlugs]

BaseCustomer ==
    [ID |-> Str1, ApplicationID |-> Str1, Name |-> <<"C">>, Email |-> <<>>,
     ChannelID |-> Str1, ChannelName |-> <<>>, CreatedAt |-> 2, UpdatedAt |-> 2,
     ArchivedAt |-> NilTime, ExpiresAt |-> NilTime, Type |-> "paid", IsArchived |-> FALSE,
     IsGitOpsSupported |-> FALSE, LicenseID |-> Str1, LicenseType |-> "paid",
     Entitlements |-> <<>>, CustomFields |-> <<>>]

CustomerAlternatives ==
    [ID |-> {<<>>},
     ApplicationID |-> {<<>>},
     Name |-> {<<>>, Repeat("n", MaxCustomerNameLength),
               Repeat("n", MaxCustomerNameLength + 1)},
     Email |-> SampleEmails \cup {<<"t", "@", "e", ".", "c">>},
     ChannelID |-> {<<>>},
     CreatedAt |-> {0, 3},
     UpdatedAt |-> {0, 1, 3},
     ArchivedAt |-> {<<0>>, <<1>>, <<2>>},
     ExpiresAt |-> {<<0>>, <<1>>, <<2>>},
     Type |-> {"", "trial", "embedded"},
     IsArchived |-> {TRUE},
     LicenseID |-> {<<>>},
     LicenseType |-> {"", "embedded", "bogus"},
     Entitlements |-> SampleMaps,
     CustomFields |-> SampleMaps]

\* the single-field replacements of an entity: <<field, value>>, one of them
\* (the ID left as it is) changing nothing
Defects(base, alts) ==
    {<<"ID", base.ID>>}
    \cup UNION {{<<f, v>> : v \in alts[f]} : f \in DOMAIN alts}

RECURSIVE Apply(_, _, _)
Apply(base, ds, i) ==
    IF i > Len(ds) THEN base
    ELSE [Apply(base, ds, i + 1) EXCEPT ![ds[i][1]] = ds[i][2]]

\* base with at most n fields replaced
Variants(base, alts, n) ==
    {Apply(base, ds, 1) : ds \in [1..n -> Defects(base, alts)]}

Entities ==
    {[kind |-> "application", val |-> a] :
        a \in Variants(BaseApplication, ApplicationAlternatives, MaxDefects)}
    \cup {[kind |-> "release", val |-> r] :
        r \in Variants(BaseRelease, ReleaseAlternatives, MaxDefects)}
    \cup {[kind |-> "channel", val |-> c] :
        c \in Variants(BaseChannel, ChannelAlternatives, MaxDefects)}
    \cup {[kind |-> "customer", val |-> c] :
        c \in Variants(BaseCustomer, CustomerAlternatives, MaxDefects)}

-----------------------------------------------------------------------------
(* SpecValidate: Validate is called once on an entity *)

IdleCall == [op |-> "none"]
IdleServer == [kind |-> "none"]
NoOutcome == [val |-> <<>>, err |-> Nil, panic |-> FALSE]

\* the goroutines the MCP library serves tool calls on
Goroutines == {"g1", "g2"}

\* the frame of a goroutine that serves no call
IdleFrame ==
    [pc |-> "idle", tool |-> "none", args |-> <<>>, srv |-> IdleServer, result |-> NoOutcome]

\* Server{logger, config, apiClient} and Client{config, httpClient, logger,
\* services} as NewServer and NewClientWithLogger leave them
ServerFields ==
    [apiClient |-> [config |-> [APIToken |-> "test-token"],
                    services |-> {"Applications", "Releases", "Channels", "Customers"}],
     logger |-> "stderr"]

\* the process before main runs: no flags, no environment, nothing loaded
IdleProcess ==
    [pc |-> "unused",
     flags |-> <<>>, env |-> <<>>, cfg |-> <<>>, err |-> Nil,
     logger |-> [writer |-> "none", level |-> 0], served |-> 0, signalled |-> FALSE,
     returned |-> "no"]

InitValidate ==
    /\ ent \in Entities
    /\ verr = Nil
    /\ vpc = "ready"
    /\ call = IdleCall
    /\ server = IdleServer
    /\ wire = <<>>
    /\ outcome = NoOutcome
    /\ logs = <<>>
    /\ svc = <<>>
    /\ pc = "idle"
    /\ running = [g \in Goroutines |-> IdleFrame]
    /\ shared = ServerFields
    /\ proc = IdleProcess
    /\ stdout = <<>>
    /\ stderr = <<>>

ServiceUnchanged ==
    UNCHANGED <<call, server, wire, outcome, logs, svc, pc, running, shared,
                proc, stdout, stderr>>

ValidateApplication ==
    /\ vpc = "ready"
    /\ ent.kind = "application"
    /\ verr' = Application_Validate(ent.val)
    /\ vpc' = "done"
    /\ UNCHANGED ent
    /\ ServiceUnchanged

ValidateRelease ==
    /\ vpc = "ready"
    /\ ent.kind = "release"
    /\ \E order \in Orders(ent.val.Metadata) :
           verr' = Release_Validate(ent.val, order)
    /\ vpc' = "done"
    /\ UNCHANGED ent
    /\ ServiceUnchanged

ValidateChannel ==
    /\ vpc = "ready"
    /\ ent.kind = "channel"
    /\ verr' = Channel_Validate(ent.val)
    /\ vpc' = "done"
    /\ UNCHANGED ent
    /\ ServiceUnchanged

ValidateCustomer ==
    /\ vpc = "ready"
    /\ ent.kind = "customer"
    /\ \E entOrder \in Orders(ent.val.Entitlements) :
       \E cfOrder \in Orders(ent.val.CustomFields) :
           verr' = Customer_Validate(ent.val, entOrder, cfOrder)
    /\ vpc' = "done"
    /\ UNCHANGED ent
    /\ ServiceUnchanged

NextValidate ==
    \/ ValidateApplication
    \/ ValidateRelease
    \/ ValidateChannel
    \/ ValidateCustomer

SpecValidate == InitValidate /\ [][NextValidate]_vars

-----------------------------------------------------------------------------
(* The invariants of the data model, stated on the entity itself *)

\* [a-z0-9-]+, not starting and not ending with '-'
WellFormedSlug(s) ==
    /\ Len(s) >= 1
    /\ \A i \in 1..Len(s) : s[i] \in (LowerLetters \cup Digits \cup {"-"})
    /\ s[1] # "-"
    /\ s[Len(s)] # "-"

\* exactly one '@', text on both sides of it, a '.' after it
WellFormedEmail(s) ==
    /\ Cardinality({i \in 1..Len(s) : s[i] = "@"}) = 1
    /\ LET at == CHOOSE i \in 1..Len(s) : s[i] = "@"
       IN  /\ at > 1
           /\ at < Len(s)
           /\ \E i \in (at + 1)..Len(s) : s[i] = "."

\* keys non-empty and at most 100 long, values at most 500 long
WellFormedMap(m) ==
    \A k \in DOMAIN m : Len(k) >= 1 /\ Len(k) <= 100 /\ Len(m[k]) <= 500

ApplicationInvariants(a) ==
    /\ a.ID # <<>> /\ a.Name # <<>> /\ a.Slug # <<>> /\ a.TeamID # <<>>
    /\ WellFormedSlug(a.Slug)
    /\ Len(a.Name) <= 255
    /\ Len(a.Description) <= 1000
    /\ a.UpdatedAt >= a.CreatedAt

ReleaseInvariants(r) ==
    /\ r.ID # <<>> /\ r.ApplicationID # <<>>
    /\ isValidSemanticVersion(r.Version)
    /\ r.Sequence >= 0
    /\ r.Status \in {"draft", "released", "archived", "superseded"}
    /\ r.UpdatedAt >= r.CreatedAt
    /\ (r.ReleasedAt # NilTime => r.ReleasedAt[1] >= r.CreatedAt)
    /\ (r.Status = "released" => r.ReleasedAt # NilTime)
    /\ Len(r.Notes) <= 10000
    /\ WellFormedMap(r.Metadata)

ArchivedStateConsistent(c) == (c.ArchivedAt # NilTime) <=> c.IsArchived

ChannelInvariants(c) ==
    /\ c.ID # <<>> /\ c.ApplicationID # <<>> /\ c.Name # <<>> /\ c.ChannelSlug # <<>>
    /\ Len(c.Name) <= 100
    /\ WellFormedSlug(c.ChannelSlug)
    /\ (c.ReleaseID # <<>> <=> c.ReleaseSequence > 0)
    /\ ArchivedStateConsistent(c)
    /\ (c.ArchivedAt # NilTime => c.ArchivedAt[1] >= c.CreatedAt)
    /\ c.UpdatedAt >= c.CreatedAt
    /\ Len(c.Description) <= 500

CustomerInvariants(c) ==
    /\ c.ID # <<>> /\ c.ApplicationID # <<>> /\ c.Name # <<>> /\ c.ChannelID # <<>>
    /\ c.LicenseID # <<>>
    /\ Len(c.Name) <= 255
    /\ c.Type \in {"trial", "paid", "community", "development"}
    /\ c.LicenseType \in {"trial", "paid", "community", "development", "embedded"}
    /\ (c.Email # <<>> => WellFormedEmail(c.Email))
    /\ ArchivedStateConsistent(c)
    /\ (c.ArchivedAt # NilTime => c.ArchivedAt[1] >= c.CreatedAt)
    /\ (c.ExpiresAt # NilTime => c.ExpiresAt[1] >= c.CreatedAt)
    /\ WellFormedMap(c.Entitlements)
    /\ WellFormedMap(c.CustomFields)

DataModelInvariants(e) ==
    CASE e.kind = "application" -> ApplicationInvariants(e.val)
      [] e.kind = "release" -> ReleaseInvariants(e.val)
      [] e.kind = "channel" -> ChannelInvariants(e.val)
      [] e.kind = "customer" -> CustomerInvariants(e.val)

\* created_at and updated_at are both set, and in order
TimestampsSetAndOrdered(e) ==
    /\ e.val.CreatedAt # 0
    /\ e.val.UpdatedAt # 0
    /\ e.val.UpdatedAt >= e.val.CreatedAt

-----------------------------------------------------------------------------
(* The rule descriptions an entity's violations call for.  A rule on the   *)
(* form or length of a field applies to a value that is present, and the   *)
(* order of two timestamps to timestamps that are set.                     *)

Present(s) == s # <<>>

When(cond, msg) == IF cond THEN {msg} ELSE {}

MapViolations(m, emptyMsg, keyMsg, valueMsg) ==
    When(\E k \in DOMAIN m : k = <<>>, emptyMsg)
    \cup When(\E k \in DOMAIN m : Len(k) > 100, keyMsg)
    \cup When(\E k \in DOMAIN m : Len(m[k]) > 500, valueMsg)

TimestampViolations(x) ==
    When(x.CreatedAt = 0, "created_at timestamp is required")
    \cup When(x.UpdatedAt = 0, "updated_at timestamp is required")
    \cup When(x.CreatedAt # 0 /\ x.UpdatedAt # 0 /\ x.UpdatedAt < x.CreatedAt,
             "updated_at must be equal to or after created_at")

ArchivedViolations(x) ==
    When(x.ArchivedAt # NilTime /\ x.ArchivedAt[1] < x.CreatedAt,
        "archived_at must be equal to or after created_at")
    \cup When(x.ArchivedAt # NilTime /\ ~x.IsArchived,
             "is_archived must be true when archived_at is set")
    \cup When(x.ArchivedAt = NilTime /\ x.IsArchived,
             "archived_at is required when is_archived is true")

ApplicationViolations(a) ==
    When(~Present(a.ID), "application ID is required")
    \cup When(~Present(a.Name), "application name is required")
    \cup When(Len(a.Name) > 255, "application name must be 255 characters or less")
    \cup When(~Present(a.Slug), "application slug is required")
    \cup When(Present(a.Slug) /\ ~WellFormedSlug(a.Slug),
             "application slug must contain only lowercase letters, numbers, and hyphens")
    \cup When(~Present(a.TeamID), "team ID is required")
    \cup TimestampViolations(a)
    \cup When(Len(a.Description) > 1000,
             "application description must be 1000 characters or less")

ReleaseViolations(r) ==
    When(~Present(r.ID), "release ID is required")
    \cup When(~Present(r.ApplicationID), "application ID is required")
    \cup When(~Present(r.Version), "release version is required")
    \cup When(Present(r.Version) /\ ~isValidSemanticVersion(r.Version),
             "release version must follow semantic versioning format (e.g., 1.0.0)")
    \cup When(r.Sequence < 0, "release sequence must be non-negative")
    \cup When(r.Status = "", "release status is required")
    \cup When(r.Status # "" /\ r.Status \notin {"draft", "released", "archived", "superseded"},
             "invalid release status")
    \cup TimestampViolations(r)
    \cup When(r.ReleasedAt # NilTime /\ r.ReleasedAt[1] < r.CreatedAt,
             "released_at must be equal to or after created_at")
    \cup When(r.Status = "released" /\ r.ReleasedAt = NilTime,
             "released_at is required when status is 'released'")
    \cup When(Len(r.Notes) > 10000, "release notes must be 10000 characters or less")
    \cup MapViolations(r.Metadata,
                       "metadata keys cannot be empty",
                       "metadata keys must be 100 characters or less",
                       "metadata values must be 500 characters or less")

ChannelViolations(c) ==
    When(~Present(c.ID), "channel ID is required")
    \cup When(~Present(c.ApplicationID), "application ID is required")
    \cup When(~Present(c.Name), "channel name is required")
    \cup When(Len(c.Name) > 100, "channel name must be 100 characters or less")
    \cup When(~Present(c.ChannelSlug), "channel slug is required")
    \cup When(Present(c.ChannelSlug) /\ ~WellFormedSlug(c.ChannelSlug),
             "channel slug must contain only lowercase letters, numbers, and hyphens")
    \cup TimestampViolations(c)
    \cup ArchivedViolations(c)
    \cup When(Present(c.ReleaseID) /\ c.ReleaseSequence <= 0,
             "release_sequence must be positive when release_id is provided")
    \cup When(~Present(c.ReleaseID) /\ c.ReleaseSequence > 0,
             "release_id is required when release_sequence is provided")
    \cup When(Len(c.Description) > 500, "channel description must be 500 characters or less")

CustomerViolations(c) ==
    When(~Present(c.ID), "customer ID is required")
    \cup When(~Present(c.ApplicationID), "application ID is required")
    \cup When(~Present(c.Name), "customer name is required")
    \cup When(Len(c.Name) > 255, "customer name must be 255 characters or less")
    \cup When(Present(c.Email) /\ ~WellFormedEmail(c.Email),
             "customer email must be a valid email address")
    \cup When(~Present(c.ChannelID), "channel ID is required")
    \cup When(c.Type = "", "customer type is required")
    \cup When(c.Type # "" /\ c.Type \notin {"trial", "paid", "community", "development"},
             "invalid customer type")
    \cup When(~Present(c.LicenseID), "license ID is required")
    \cup When(c.LicenseType = "", "license type is required")
    \cup When(c.LicenseType # ""
             /\ c.LicenseType \notin {"trial", "paid", "community", "development", "embedded"},
             "invalid license type")
    \cup TimestampViolations(c)
    \cup ArchivedViolations(c)
    \cup When(c.ExpiresAt # NilTime /\ c.ExpiresAt[1] < c.CreatedAt,
             "expires_at must be equal to or after created_at")
    \cup MapViolations(c.Entitlements,
                       "entitlement keys cannot be empty",
                       "entitlement keys must be 100 characters or less",
                       "entitlement values must be 500 characters or less")
    \cup MapViolations(c.CustomFields,
                       "custom field keys cannot be empty",
                       "custom field keys must be 100 characters or less",
                       "custom field values must be 500 characters or less")

Violations(e) ==
    CASE e.kind = "application" -> ApplicationViolations(e.val)
      [] e.kind = "release" -> ReleaseViolations(e.val)
      [] e.kind = "channel" -> ChannelViolations(e.val)
      [] e.kind = "customer" -> CustomerViolations(e.val)

\* C2: Validate does not stop at the first failure: the one error it returns
\* holds the rule description of every invariant the entity violates, and of
\* no other.
C2_AllViolationsReported ==
    vpc = "done" =>
        /\ \A d \in Violations(ent) : Has(verr, d)
        /\ \A i \in 2..Len(verr) : verr[i] \in Violations(ent)

\* Validate has returned one error for an entity that violates at least two
\* invariants at once
C2_Witness ==
    /\ vpc = "done"
    /\ Cardinality(Violations(ent)) >= 2
    /\ verr # Nil

-----------------------------------------------------------------------------
(* pkg/api: values.  A pointer is <<>> (nil) or <<v>>; an error is Nil or  *)
(* the chain of wrapped errors, outermost first, each [msg, status] with   *)
(* status 0 unless the error is an *Error built from an HTTP response; a   *)
(* request path is the sequence of the chunks it was concatenated from.    *)

HTTPErrorThreshold == 400

DefaultUserAgent == "replicated-mcp-server"

\* ClientConfig.APIToken of the one client built at startup
APIToken == "test-token"

NilPtr == <<>>

Ptr(v) == <<v>>

\* fmt.Errorf(msg) / errors of other packages
NewError(msg) == <<[msg |-> msg, status |-> 0]>>

\* fmt.Errorf(msg + ": %w", err)
Wrap(msg, err) == <<[msg |-> msg, status |-> 0]>> \o err

\* a call of a client operation that takes a limit and an offset, with the
\* values passed
PagedCall(op, limit, offset) ==
    [op |-> op, paged |-> TRUE, limit |-> limit, offset |-> offset]

\* a call of a client operation that takes no limit and no offset
PlainCall(op) == [op |-> op, paged |-> FALSE, limit |-> 0, offset |-> 0]

\* what a function returns and what it did on the way: the returned value
\* and error, the requests it put on the wire, the records it logged, the
\* client operations it invoked
Return(val, err, reqs, lg, ops) ==
    [val |-> val, err |-> err, reqs |-> reqs, logs |-> lg, ops |-> ops, panic |-> FALSE]

\* the function did not return: a run-time panic unwound it
Panic(reqs, lg, ops) ==
    [val |-> NilPtr, err |-> Nil, reqs |-> reqs, logs |-> lg, ops |-> ops, panic |-> TRUE]

LogRecord(level, msg) == [level |-> level, msg |-> msg]

\* http.StatusText
StatusText(code) ==
    CASE code = 400 -> "Bad Request"
      [] code = 401 -> "Unauthorized"
      [] code = 404 -> "Not Found"
      [] code = 500 -> "Internal Server Error"
      [] OTHER -> ""

\* url.PathEscape, character by character
PathEscapeChar(c) ==
    CASE c = "/" -> "%2F"
      [] c = "?" -> "%3F"
      [] c = "#" -> "%23"
      [] c = "%" -> "%25"
      [] c = " " -> "%20"
      [] OTHER -> c

PathEscape(s) == [i \in 1..Len(s) |-> PathEscapeChar(s[i])]

\* url.QueryEscape, character by character
QueryEscapeChar(c) ==
    CASE c = "/" -> "%2F"
      [] c = "?" -> "%3F"
      [] c = "#" -> "%23"
      [] c = "%" -> "%25"
      [] c = "&" -> "%26"
      [] c = "=" -> "%3D"
      [] c = " " -> "+"
      [] OTHER -> c

QueryEscape(s) == [i \in 1..Len(s) |-> QueryEscapeChar(s[i])]

\* url.Values.Encode of the limit and offset parameters (keys in sorted order)
LimitOffsetQuery(limit, offset) ==
    LET l == IF limit > 0 THEN <<<<"limit=", ToString(limit)>>>> ELSE <<>>
        o == IF offset > 0 THEN <<<<"offset=", ToString(offset)>>>> ELSE <<>>
        params == l \o o
    IN  IF Len(params) = 0 THEN <<>>
        ELSE IF Len(params) = 1 THEN <<"?">> \o params[1]
             ELSE <<"?">> \o params[1] \o <<"&">> \o params[2]

\* the white space strings.TrimSpace removes
WhiteSpace == {" ", "\t", "\n", "\r"}

\* strings.TrimSpace
RECURSIVE TrimSpace(_)
TrimSpace(s) ==
    IF Len(s) > 0 /\ s[1] \in WhiteSpace THEN TrimSpace(Tail(s))
    ELSE IF Len(s) > 0 /\ s[Len(s)] \in WhiteSpace THEN TrimSpace(SubSeq(s, 1, Len(s) - 1))
         ELSE s

-----------------------------------------------------------------------------
(* pkg/api: the transport client (client.go) *)

\* a GetAuthHeaders that sends the token behind the word Bearer
Client_GetAuthHeaders_Bearer ==
    [Authorization |-> "Bearer " \o APIToken, UserAgent |-> DefaultUserAgent]

\* Client.GetAuthHeaders
Client_GetAuthHeaders == [Authorization |-> APIToken, UserAgent |-> DefaultUserAgent]

\* url.Parse rejects a path with a control character or with a "%" that does
\* not start an escape (two hexadecimal digits)
HexDigits == Digits \cup {"a", "b", "c", "d", "e", "f", "A", "B", "C", "D", "E", "F"}

InvalidPath(path) ==
    \E i \in 1..Len(path) :
        \/ path[i] \in {"\t", "\n", "\r"}
        \/ /\ path[i] = "%"
           /\ ~(i + 2 <= Len(path) /\ path[i + 1] \in HexDigits /\ path[i + 2] \in HexDigits)

\* a makeRequest whose request is not bound to the caller's context: the
\* response arrives although the context has ended
Client_makeRequest_IgnoreContext(method, path, srv) ==
    LET req == [method |-> method, path |-> path, headers |-> Client_GetAuthHeaders]
        l1 == LogRecord("DEBUG", "Making API request")
    IN  IF InvalidPath(path)
        THEN Return(NilPtr, Wrap("invalid path", NewError("parse")), <<>>, <<>>, <<>>)
        ELSE IF srv.kind = "transport_error"
        THEN Return(NilPtr, Wrap("request failed", NewError("transport")), <<req>>,
                    <<l1, LogRecord("ERROR", "API request failed")>>, <<>>)
        ELSE Return(Ptr([StatusCode |-> srv.status, Body |-> srv.body]), Nil, <<req>>,
                    <<l1, LogRecord("DEBUG", "API request completed")>>, <<>>)

\* a makeRequest that sends the request again after a transport error
Client_makeRequest_Retry(method, path, srv) ==
    LET req == [method |-> method, path |-> path, headers |-> Client_GetAuthHeaders]
        l1 == LogRecord("DEBUG", "Making API request")
    IN  IF InvalidPath(path)
        THEN Return(NilPtr, Wrap("invalid path", NewError("parse")), <<>>, <<>>, <<>>)
        ELSE IF srv.kind \in {"transport_error", "context_done"}
        THEN Return(NilPtr, Wrap("request failed", NewError("transport")), <<req, req>>,
                    <<l1, LogRecord("ERROR", "API request failed")>>, <<>>)
        ELSE Return(Ptr([StatusCode |-> srv.status, Body |-> srv.body]), Nil, <<req>>,
                    <<l1, LogRecord("DEBUG", "API request completed")>>, <<>>)

\* Client.makeRequest: builds the request, sends it once, logs the outcome.
\* srv is how the vendor API answers: a transport error, or a response; or the
\* context of the request ends first (cancellation, deadline) and
\* httpClient.Do returns the context's error, whatever the API would have sent.
Client_makeRequest(method, path, srv) ==
    LET req == [method |-> method, path |-> path, headers |-> Client_GetAuthHeaders]
        l1 == LogRecord("DEBUG", "Making API request")
    IN  IF InvalidPath(path)
        THEN Return(NilPtr, Wrap("invalid path", NewError("parse")), <<>>, <<>>, <<>>)
        ELSE IF srv.kind \in {"transport_error", "context_done"}
        THEN Return(NilPtr, Wrap("request failed", NewError("transport")), <<req>>,
                    <<l1, LogRecord("ERROR", "API request failed")>>, <<>>)
        ELSE Return(Ptr([StatusCode |-> srv.status, Body |-> srv.body]), Nil, <<req>>,
                    <<l1, LogRecord("DEBUG", "API request completed")>>, <<>>)

\* Client.Get
Client_Get(path, srv) == Client_makeRequest("GET", path, srv)

\* Client.ConvertHTTPError
Client_ConvertHTTPError(resp) ==
    IF resp.StatusCode < HTTPErrorThreshold THEN Nil
    ELSE LET parsed == resp.Body.readable /\ resp.Body.wellformed
             message == IF parsed /\ resp.Body.message # ""
                        THEN resp.Body.message
                        ELSE StatusText(resp.StatusCode)
         IN  <<[msg |-> message, status |-> resp.StatusCode]>>

\* io.ReadAll followed by json.Unmarshal into target: the error, if any
ReadAndUnmarshal(resp, readMsg, decodeMsg) ==
    IF ~resp.Body.readable THEN Wrap(readMsg, NewError("read"))
    ELSE IF ~resp.Body.wellformed THEN Wrap(decodeMsg, NewError("json"))
         ELSE Nil

\* the PaginatedResponse[T] a well-formed body decodes into
DecodePaginated(body) ==
    [Data |-> body.list, TotalCount |-> body.total_count, Page |-> body.page,
     PageSize |-> body.page_size, HasMore |-> body.has_more]

-----------------------------------------------------------------------------
(* pkg/api: helpers of the client-side search *)

LowerOf ==
    [A |-> "a", B |-> "b", C |-> "c", D |-> "d", E |-> "e", F |-> "f", G |-> "g",
     H |-> "h", I |-> "i", J |-> "j", K |-> "k", L |-> "l", M |-> "m", N |-> "n",
     O |-> "o", P |-> "p", Q |-> "q", R |-> "r", S |-> "s", T |-> "t", U |-> "u",
     V |-> "v", W |-> "w", X |-> "x", Y |-> "y", Z |-> "z"]

\* strings.ToLower
ToLower(s) == [i \in 1..Len(s) |-> IF s[i] \in UpperLetters THEN LowerOf[s[i]] ELSE s[i]]

\* a strings.Contains that finds sub at the start of s only
Contains_AtStartOnly(s, sub) ==
    Len(sub) <= Len(s) /\ SubSeq(s, 1, Len(sub)) = sub

\* strings.Contains
Contains(s, sub) ==
    \E i \in 0..(Len(s) - Len(sub)) : SubSeq(s, i + 1, i + Len(sub)) = sub

\* opts.Limit / opts.Offset of a *ListOptions that may be nil
OptLimit(opts) == IF opts = NilPtr THEN 0 ELSE opts[1].Limit

OptOffset(opts) == IF opts = NilPtr THEN 0 ELSE opts[1].Offset

-----------------------------------------------------------------------------
(* pkg/api: ReleaseService *)

\* ReleaseService.List
ReleaseService_List(appID, opts, srv) ==
    IF appID = <<>>
    THEN Return(NilPtr, NewError("application ID is required"), <<>>, <<>>, <<>>)
    ELSE
    LET path == <<"/v3/app/">> \o PathEscape(appID) \o <<"/releases">>
                    \o LimitOffsetQuery(OptLimit(opts), OptOffset(opts))
        r == Client_Get(path, srv)
    IN  IF r.err # Nil
        THEN Return(NilPtr, Wrap("failed to list releases", r.err), r.reqs, r.logs, <<>>)
        ELSE LET resp == r.val[1]
                 derr == ReadAndUnmarshal(resp, "failed to read response body",
                                          "failed to unmarshal response")
             IN  IF Client_ConvertHTTPError(resp) # Nil
                 THEN Return(NilPtr, Client_ConvertHTTPError(resp), r.reqs, r.logs, <<>>)
                 ELSE IF derr # Nil
                      THEN Return(NilPtr, derr, r.reqs, r.logs, <<>>)
                      ELSE Return(Ptr(DecodePaginated(resp.Body)), Nil, r.reqs, r.logs, <<>>)

\* a ReleaseService.Get that does not test the release id
ReleaseService_Get_NoIDCheck(appID, releaseID, srv) ==
    IF appID = <<>>
    THEN Return(NilPtr, NewError("application ID is required"), <<>>, <<>>, <<>>)
    ELSE
    LET path == <<"/v3/app/">> \o PathEscape(appID) \o <<"/release/">>
                    \o PathEscape(releaseID)
        r == Client_Get(path, srv)
    IN  IF r.err # Nil
        THEN Return(NilPtr, Wrap("failed to get release", r.err), r.reqs, r.logs, <<>>)
        ELSE LET resp == r.val[1]
                 derr == ReadAndUnmarshal(resp, "failed to read response body",
                                          "failed to unmarshal response")
             IN  IF Client_ConvertHTTPError(resp) # Nil
                 THEN Return(NilPtr, Client_ConvertHTTPError(resp), r.reqs, r.logs, <<>>)
                 ELSE IF derr # Nil
                      THEN Return(NilPtr, derr, r.reqs, r.logs, <<>>)
                      ELSE Return(Ptr(resp.Body.item), Nil, r.reqs, r.logs, <<>>)

\* ReleaseService.Get
ReleaseService_Get(appID, releaseID, srv) ==
    IF appID = <<>>
    THEN Return(NilPtr, NewError("application ID is required"), <<>>, <<>>, <<>>)
    ELSE IF releaseID = <<>>
    THEN Return(NilPtr, NewError("release ID is required"), <<>>, <<>>, <<>>)
    ELSE
    LET path == <<"/v3/app/">> \o PathEscape(appID) \o <<"/release/">>
                    \o PathEscape(releaseID)
        r == Client_Get(path, srv)
    IN  IF r.err # Nil
        THEN Return(NilPtr, Wrap("failed to get release", r.err), r.reqs, r.logs, <<>>)
        ELSE LET resp == r.val[1]
                 derr == ReadAndUnmarshal(resp, "failed to read response body",
                                          "failed to unmarshal response")
             IN  IF Client_ConvertHTTPError(resp) # Nil
                 THEN Return(NilPtr, Client_ConvertHTTPError(resp), r.reqs, r.logs, <<>>)
                 ELSE IF derr # Nil
                      THEN Return(NilPtr, derr, r.reqs, r.logs, <<>>)
                      ELSE Return(Ptr(resp.Body.item), Nil, r.reqs, r.logs, <<>>)

\* ReleaseService.Search
ReleaseService_Search(appID, opts, srv) ==
    IF appID = <<>>
    THEN Return(NilPtr, NewError("application ID is required"), <<>>, <<>>, <<>>)
    ELSE IF opts = NilPtr \/ opts[1].Query = <<>>
    THEN Return(NilPtr, NewError("search query is required"), <<>>, <<>>, <<>>)
    ELSE
    LET path == <<"/v3/app/">> \o PathEscape(appID) \o <<"/releases/search", "?">>
                    \o (IF opts[1].Limit > 0
                        THEN <<"limit=", ToString(opts[1].Limit), "&">> ELSE <<>>)
                    \o (IF opts[1].Offset > 0
                        THEN <<"offset=", ToString(opts[1].Offset), "&">> ELSE <<>>)
                    \o <<"q=">> \o QueryEscape(opts[1].Query)
        r == Client_Get(path, srv)
    IN  IF r.err # Nil
        THEN Return(NilPtr, Wrap("failed to search releases", r.err), r.reqs, r.logs, <<>>)
        ELSE LET resp == r.val[1]
                 derr == ReadAndUnmarshal(resp, "failed to read response body",
                                          "failed to unmarshal response")
             IN  IF Client_ConvertHTTPError(resp) # Nil
                 THEN Return(NilPtr, Client_ConvertHTTPError(resp), r.reqs, r.logs, <<>>)
                 ELSE IF derr # Nil
                      THEN Return(NilPtr, derr, r.reqs, r.logs, <<>>)
                      ELSE Return(Ptr(DecodePaginated(resp.Body)), Nil, r.reqs, r.logs, <<>>)

-----------------------------------------------------------------------------
(* pkg/api: ChannelService *)

\* ChannelService.List
ChannelService_List(appID, opts, srv) ==
    IF appID = <<>>
    THEN Return(NilPtr, NewError("application ID is required"), <<>>, <<>>, <<>>)
    ELSE
    LET path == <<"/v3/app/">> \o PathEscape(appID) \o <<"/channels">>
                    \o LimitOffsetQuery(OptLimit(opts), OptOffset(opts))
        r == Client_Get(path, srv)
    IN  IF r.err # Nil
        THEN Return(NilPtr, Wrap("failed to list channels", r.err), r.reqs, r.logs, <<>>)
        ELSE LET resp == r.val[1]
                 derr == ReadAndUnmarshal(resp, "failed to read response body",
                                          "failed to unmarshal response")
             IN  IF Client_ConvertHTTPError(resp) # Nil
                 THEN Return(NilPtr, Client_ConvertHTTPError(resp), r.reqs, r.logs, <<>>)
                 ELSE IF derr # Nil
                      THEN Return(NilPtr, derr, r.reqs, r.logs, <<>>)
                      ELSE Return(Ptr(DecodePaginated(resp.Body)), Nil, r.reqs, r.logs, <<>>)

\* ChannelService.Get
ChannelService_Get(appID, channelID, srv) ==
    IF appID = <<>>
    THEN Return(NilPtr, NewError("application ID is required"), <<>>, <<>>, <<>>)
    ELSE IF channelID = <<>>
    THEN Return(NilPtr, NewError("channel ID is required"), <<>>, <<>>, <<>>)
    ELSE
    LET path == <<"/v3/app/">> \o PathEscape(appID) \o <<"/channel/">>
                    \o PathEscape(channelID)
        r == Client_Get(path, srv)
    IN  IF r.err # Nil
        THEN Return(NilPtr, Wrap("failed to get channel", r.err), r.reqs, r.logs, <<>>)
        ELSE LET resp == r.val[1]
                 derr == ReadAndUnmarshal(resp, "failed to read response body",
                                          "failed to unmarshal response")
             IN  IF Client_ConvertHTTPError(resp) # Nil
                 THEN Return(NilPtr, Client_ConvertHTTPError(resp), r.reqs, r.logs, <<>>)
                 ELSE IF derr # Nil
                      THEN Return(NilPtr, derr, r.reqs, r.logs, <<>>)
                      ELSE Return(Ptr(resp.Body.item), Nil, r.reqs, r.logs, <<>>)

\* ChannelService.Search
ChannelService_Search(appID, opts, srv) ==
    IF appID = <<>>
    THEN Return(NilPtr, NewError("application ID is required"), <<>>, <<>>, <<>>)
    ELSE IF opts = NilPtr \/ TrimSpace(opts[1].Query) = <<>>
    THEN Return(NilPtr, NewError("search query is required"), <<>>, <<>>, <<>>)
    ELSE
    LET listOpts == Ptr([Limit |-> 100, Offset |-> opts[1].Offset])
        l == ChannelService_List(appID, listOpts, srv)
    IN  IF l.err # Nil
        THEN Return(NilPtr, Wrap("failed to list channels for search", l.err),
                    l.reqs, l.logs, <<>>)
        ELSE LET queryLower == ToLower(TrimSpace(opts[1].Query))
                 Match(c) ==
                     Contains(ToLower(c.Name), queryLower)
                     \/ Contains(ToLower(c.Slug), queryLower)
                     \/ Contains(ToLower(c.Description), queryLower)
                 matched == SelectSeq(l.val[1].Data, Match)
                 filtered == IF opts[1].Limit > 0 /\ Len(matched) > opts[1].Limit
                             THEN SubSeq(matched, 1, opts[1].Limit)
                             ELSE matched
             IN  Return(Ptr([Data |-> filtered, TotalCount |-> Len(filtered), Page |-> 1,
                             PageSize |-> Len(filtered), HasMore |-> FALSE]),
                        Nil, l.reqs, l.logs, <<>>)

-----------------------------------------------------------------------------
(* pkg/api: CustomerService *)

\* CustomerService.List
CustomerService_List(appID, opts, srv) ==
    IF appID = <<>>
    THEN Return(NilPtr, NewError("application ID is required"), <<>>, <<>>, <<>>)
    ELSE
    LET path == <<"/v3/app/">> \o PathEscape(appID) \o <<"/customers">>
                    \o LimitOffsetQuery(OptLimit(opts), OptOffset(opts))
        r == Client_Get(path, srv)
    IN  IF r.err # Nil
        THEN Return(NilPtr, Wrap("failed to list customers", r.err), r.reqs, r.logs, <<>>)
        ELSE LET resp == r.val[1]
                 derr == ReadAndUnmarshal(resp, "failed to read response body",
                                          "failed to unmarshal response")
             IN  IF Client_ConvertHTTPError(resp) # Nil
                 THEN Return(NilPtr, Client_ConvertHTTPError(resp), r.reqs, r.logs, <<>>)
                 ELSE IF derr # Nil
                      THEN Return(NilPtr, derr, r.reqs, r.logs, <<>>)
                      ELSE Return(Ptr(DecodePaginated(resp.Body)), Nil, r.reqs, r.logs, <<>>)

\* CustomerService.Get
CustomerService_Get(appID, customerID, srv) ==
    IF appID = <<>>
    THEN Return(NilPtr, NewError("application ID is required"), <<>>, <<>>, <<>>)
    ELSE IF customerID = <<>>
    THEN Return(NilPtr, NewError("customer ID is required"), <<>>, <<>>, <<>>)
    ELSE
    LET path == <<"/v3/app/">> \o PathEscape(appID) \o <<"/customer/">>
                    \o PathEscape(customerID)
        r == Client_Get(path, srv)
    IN  IF r.err # Nil
        THEN Return(NilPtr, Wrap("failed to get customer", r.err), r.reqs, r.logs, <<>>)
        ELSE LET resp == r.val[1]
                 derr == ReadAndUnmarshal(resp, "failed to read response body",
                                          "failed to unmarshal response")
             IN  IF Client_ConvertHTTPError(resp) # Nil
                 THEN Return(NilPtr, Client_ConvertHTTPError(resp), r.reqs, r.logs, <<>>)
                 ELSE IF derr # Nil
                      THEN Return(NilPtr, derr, r.reqs, r.logs, <<>>)
                      ELSE Return(Ptr(resp.Body.item), Nil, r.reqs, r.logs, <<>>)

\* CustomerService.Search
CustomerService_Search(appID, opts, srv) ==
    IF appID = <<>>
    THEN Return(NilPtr, NewError("application ID is required"), <<>>, <<>>, <<>>)
    ELSE IF opts = NilPtr \/ TrimSpace(opts[1].Query) = <<>>
    THEN Return(NilPtr, NewError("search query is required"), <<>>, <<>>, <<>>)
    ELSE
    LET listOpts == Ptr([Limit |-> 100, Offset |-> opts[1].Offset])
        l == CustomerService_List(appID, listOpts, srv)
    IN  IF l.err # Nil
        THEN Return(NilPtr, Wrap("failed to list customers for search", l.err),
                    l.reqs, l.logs, <<>>)
        ELSE LET queryLower == ToLower(TrimSpace(opts[1].Query))
                 Match(c) ==
                     Contains(ToLower(c.Name), queryLower)
                     \/ Contains(ToLower(c.Email), queryLower)
                     \/ Contains(ToLower(c.Type), queryLower)
                     \/ Contains(ToLower(c.Status), queryLower)
                     \/ Contains(ToLower(c.LicenseID), queryLower)
                     \/ Contains(ToLower(c.ChannelName), queryLower)
                 matched == SelectSeq(l.val[1].Data, Match)
                 filtered == IF opts[1].Limit > 0 /\ Len(matched) > opts[1].Limit
                             THEN SubSeq(matched, 1, opts[1].Limit)
                             ELSE matched
             IN  Return(Ptr([Data |-> filtered, TotalCount |-> Len(filtered), Page |-> 1,
                             PageSize |-> Len(filtered), HasMore |-> FALSE]),
                        Nil, l.reqs, l.logs, <<>>)

-----------------------------------------------------------------------------
(* pkg/api: ApplicationService *)

\* the ApplicationList a well-formed body decodes into
DecodeApplicationList(body) == [Applications |-> body.list]

\* ApplicationService.ListApplications
ApplicationService_ListApplications(opts, srv) ==
    LET path == <<"/vendor/v3/apps">>
                    \o (IF opts # NilPtr /\ opts[1].ExcludeChannels
                        THEN <<"?", "excludeChannels=true">> ELSE <<>>)
        pre == <<LogRecord("DEBUG", "Listing applications")>>
        r == Client_Get(path, srv)
    IN  IF r.err # Nil
        THEN Return(NilPtr, Wrap("failed to list applications", r.err), r.reqs, pre \o r.logs, <<>>)
        ELSE LET resp == r.val[1]
                 derr == ReadAndUnmarshal(resp, "failed to read response body",
                                          "failed to decode response")
             IN  IF resp.StatusCode >= 400
                 THEN Return(NilPtr, Wrap("API error", Client_ConvertHTTPError(resp)),
                             r.reqs, pre \o r.logs, <<>>)
                 ELSE IF derr # Nil
                      THEN Return(NilPtr, derr, r.reqs, pre \o r.logs, <<>>)
                      ELSE Return(Ptr(DecodeApplicationList(resp.Body)), Nil, r.reqs,
                                  pre \o r.logs \o <<LogRecord("DEBUG", "Successfully listed applications")>>, <<>>)

\* ApplicationService.GetApplication: the id goes into the path unescaped
ApplicationService_GetApplication(id, srv) ==
    IF id = <<>>
    THEN Return(NilPtr, NewError("application ID is required"), <<>>, <<>>, <<>>)
    ELSE
    LET path == <<"/vendor/v3/app/">> \o id
        pre == <<LogRecord("DEBUG", "Getting application")>>
        r == Client_Get(path, srv)
    IN  IF r.err # Nil
        THEN Return(NilPtr, Wrap("failed to get application", r.err), r.reqs, pre \o r.logs, <<>>)
        ELSE LET resp == r.val[1]
                 derr == ReadAndUnmarshal(resp, "failed to read response body",
                                          "failed to decode response")
             IN  IF resp.StatusCode >= 400
                 THEN Return(NilPtr, Wrap("API error", Client_ConvertHTTPError(resp)),
                             r.reqs, pre \o r.logs, <<>>)
                 ELSE IF derr # Nil
                      THEN Return(NilPtr, derr, r.reqs, pre \o r.logs, <<>>)
                      ELSE Return(Ptr(resp.Body.item), Nil, r.reqs,
                                  pre \o r.logs \o <<LogRecord("DEBUG", "Successfully retrieved application")>>, <<>>)

\* ApplicationService.SearchApplications
ApplicationService_SearchApplications(query, opts, srv) ==
    IF TrimSpace(query) = <<>>
    THEN Return(NilPtr, NewError("search query is required"), <<>>, <<>>, <<>>)
    ELSE
    LET pre == <<LogRecord("DEBUG", "Searching applications")>>
        l == ApplicationService_ListApplications(opts, srv)
    IN  IF l.err # Nil
        THEN Return(NilPtr, Wrap("failed to list applications for search", l.err),
                    l.reqs, pre \o l.logs, <<>>)
        ELSE LET queryLower == ToLower(TrimSpace(query))
                 Match(app) ==
                     \/ Contains(ToLower(app.Name), queryLower)
                     \/ Contains(ToLower(app.Slug), queryLower)
                     \/ Contains(ToLower(app.Description), queryLower)
                 filteredApps == SelectSeq(l.val[1].Applications, Match)
             IN  Return(Ptr([Applications |-> filteredApps]), Nil, l.reqs,
                        pre \o l.logs
                            \o <<LogRecord("DEBUG", "Successfully searched applications")>>,
                        <<>>)

-----------------------------------------------------------------------------
(* pkg/api: ApplicationService as applications.go has it, with server-side *)
(* paging and search                                                       *)

\* the ApplicationList of applications.go a well-formed body decodes into
DecodeApplicationPage(body) ==
    [Applications |-> body.list, Page |-> body.page, PageSize |-> body.page_size,
     TotalCount |-> body.total_count, HasMore |-> body.has_more]

\* url.Values.Encode of the parameters set from a *ListOptions{Page, PageSize,
\* Limit}, keys in sorted order, before the parameters in last
PageQuery(last, opts) ==
    LET l == IF opts # NilPtr /\ opts[1].Limit > 0
             THEN <<<<"limit=", ToString(opts[1].Limit)>>>> ELSE <<>>
        pg == IF opts # NilPtr /\ opts[1].Page > 0
              THEN <<<<"page=", ToString(opts[1].Page)>>>> ELSE <<>>
        ps == IF opts # NilPtr /\ opts[1].PageSize > 0
              THEN <<<<"page_size=", ToString(opts[1].PageSize)>>>> ELSE <<>>
        params == l \o pg \o ps \o last
        Joined[i \in 0..Len(params)] ==
            IF i = 0 THEN <<>>
            ELSE Joined[i - 1] \o (IF i > 1 THEN <<"&">> ELSE <<>>) \o params[i]
    IN  IF Len(params) = 0 THEN <<>> ELSE <<"?">> \o Joined[Len(params)]

\* ApplicationService.ListApplications (applications.go)
ApplicationService_ListApplications_paged(opts, srv) ==
    LET path == <<"/vendor/v3/apps">> \o PageQuery(<<>>, opts)
        pre == <<LogRecord("DEBUG", "Listing applications")>>
        r == Client_Get(path, srv)
    IN  IF r.err # Nil
        THEN Return(NilPtr, Wrap("failed to list applications", r.err), r.reqs, pre \o r.logs, <<>>)
        ELSE LET resp == r.val[1]
                 derr == ReadAndUnmarshal(resp, "failed to read response body",
                                          "failed to decode response")
             IN  IF resp.StatusCode >= 400
                 THEN Return(NilPtr, Wrap("API error", Client_ConvertHTTPError(resp)),
                             r.reqs, pre \o r.logs, <<>>)
                 ELSE IF derr # Nil
                      THEN Return(NilPtr, derr, r.reqs, pre \o r.logs, <<>>)
                      ELSE Return(Ptr(DecodeApplicationPage(resp.Body)), Nil, r.reqs,
                                  pre \o r.logs \o <<LogRecord("DEBUG", "Successfully listed applications")>>, <<>>)

\* ApplicationService.SearchApplications (applications.go)
ApplicationService_SearchApplications_paged(query, opts, srv) ==
    IF TrimSpace(query) = <<>>
    THEN Return(NilPtr, NewError("search query is required"), <<>>, <<>>, <<>>)
    ELSE
    LET path == <<"/vendor/v3/apps">> \o PageQuery(<<<<"search=">> \o QueryEscape(query)>>, opts)
        pre == <<LogRecord("DEBUG", "Searching applications")>>
        r == Client_Get(path, srv)
    IN  IF r.err # Nil
        THEN Return(NilPtr, Wrap("failed to search applications", r.err), r.reqs, pre \o r.logs, <<>>)
        ELSE LET resp == r.val[1]
                 derr == ReadAndUnmarshal(resp, "failed to read response body",
                                          "failed to decode response")
             IN  IF resp.StatusCode >= 400
                 THEN Return(NilPtr, Wrap("API error", Client_ConvertHTTPError(resp)),
                             r.reqs, pre \o r.logs, <<>>)
                 ELSE IF derr # Nil
                      THEN Return(NilPtr, derr, r.reqs, pre \o r.logs, <<>>)
                      ELSE Return(Ptr(DecodeApplicationPage(resp.Body)), Nil, r.reqs,
                                  pre \o r.logs \o <<LogRecord("DEBUG", "Successfully searched applications")>>, <<>>)

-----------------------------------------------------------------------------
(* pkg/api: the application operations of the v1 client, which validate    *)
(* what they decode                                                        *)

\* Client.parseJSONResponse: the error, if any
Client_parseJSONResponse(resp, operation) ==
    IF Client_ConvertHTTPError(resp) # Nil THEN Client_ConvertHTTPError(resp)
    ELSE IF ~resp.Body.readable
         THEN Wrap("failed to read response body for " \o operation, NewError("read"))
         ELSE IF ~resp.Body.wellformed
              THEN Wrap("failed to parse JSON response for " \o operation, NewError("json"))
              ELSE Nil

\* the loop "for i, app := range appList.Applications" with its Warn records
ValidationWarnings(apps) ==
    LET Warned[i \in 0..Len(apps)] ==
            IF i = 0 THEN <<>>
            ELSE Warned[i - 1]
                 \o (IF Application_Validate(apps[i]) # Nil
                     THEN <<LogRecord("WARN", "Application validation failed")>>
                     ELSE <<>>)
    IN  Warned[Len(apps)]

\* url.Values.Encode of the parameters set from a *ListOptions{Page, PageSize},
\* keys in sorted order, before the parameters in last
PageQuery_v1(last, opts) ==
    LET pg == IF opts # NilPtr /\ opts[1].Page > 0
              THEN <<<<"page=", ToString(opts[1].Page)>>>> ELSE <<>>
        ps == IF opts # NilPtr /\ opts[1].PageSize > 0
              THEN <<<<"page_size=", ToString(opts[1].PageSize)>>>> ELSE <<>>
        params == pg \o ps \o last
        Joined[i \in 0..Len(params)] ==
            IF i = 0 THEN <<>>
            ELSE Joined[i - 1] \o (IF i > 1 THEN <<"&">> ELSE <<>>) \o params[i]
    IN  Joined[Len(params)]

\* a ListApplications in which a validation failure fails the operation
Client_ListApplications_v1_Blocking(opts, srv) ==
    LET query == PageQuery_v1(<<>>, opts)
        path == <<"/v1/applications">> \o (IF Len(query) > 0 THEN <<"?">> \o query ELSE <<>>)
        r == Client_Get(path, srv)
    IN  IF r.err # Nil
        THEN Return(NilPtr, Wrap("failed to list applications", r.err), r.reqs, r.logs, <<>>)
        ELSE LET resp == r.val[1]
                 perr == Client_parseJSONResponse(resp, "list applications")
             IN  IF perr # Nil
                 THEN Return(NilPtr, perr, r.reqs, r.logs, <<>>)
                 ELSE LET appList == DecodeApplicationPage(resp.Body)
                      IN  IF ValidationWarnings(appList.Applications) # <<>>
                          THEN Return(NilPtr, NewError("validation failed"), r.reqs,
                                      r.logs \o ValidationWarnings(appList.Applications), <<>>)
                          ELSE Return(Ptr(appList), Nil, r.reqs, r.logs, <<>>)

\* Client.ListApplications(ctx, opts *ListOptions)
Client_ListApplications_v1(opts, srv) ==
    LET query == PageQuery_v1(<<>>, opts)
        path == <<"/v1/applications">> \o (IF Len(query) > 0 THEN <<"?">> \o query ELSE <<>>)
        r == Client_Get(path, srv)
    IN  IF r.err # Nil
        THEN Return(NilPtr, Wrap("failed to list applications", r.err), r.reqs, r.logs, <<>>)
        ELSE LET resp == r.val[1]
                 perr == Client_parseJSONResponse(resp, "list applications")
             IN  IF perr # Nil
                 THEN Return(NilPtr, perr, r.reqs, r.logs, <<>>)
                 ELSE LET appList == DecodeApplicationPage(resp.Body)
                      IN  Return(Ptr(appList), Nil, r.reqs,
                                 r.logs \o ValidationWarnings(appList.Applications)
                                   \o <<LogRecord("INFO", "Successfully listed applications")>>,
                                 <<>>)

\* Client.GetApplication(ctx, id) of the v1 client
Client_GetApplication_v1(id, srv) ==
    IF id = <<>>
    THEN Return(NilPtr, NewError("application ID is required"), <<>>, <<>>, <<>>)
    ELSE
    LET path == <<"/v1/applications/">> \o id
        r == Client_Get(path, srv)
    IN  IF r.err # Nil
        THEN Return(NilPtr, Wrap("failed to get application", r.err), r.reqs, r.logs, <<>>)
        ELSE LET resp == r.val[1]
                 perr == Client_parseJSONResponse(resp, "get application")
             IN  IF perr # Nil
                 THEN Return(NilPtr, perr, r.reqs, r.logs, <<>>)
                 ELSE LET app == resp.Body.item
                      IN  Return(Ptr(app), Nil, r.reqs,
                                 r.logs \o ValidationWarnings(<<app>>)
                                   \o <<LogRecord("INFO", "Successfully retrieved application")>>,
                                 <<>>)

\* Client.SearchApplications(ctx, query, opts *ListOptions) of the v1 client
Client_SearchApplications_v1(query, opts, srv) ==
    IF query = <<>>
    THEN Return(NilPtr, NewError("search query is required"), <<>>, <<>>, <<>>)
    ELSE
    LET path == <<"/v1/applications/search", "?">>
                    \o PageQuery_v1(<<<<"q=">> \o QueryEscape(query)>>, opts)
        r == Client_Get(path, srv)
    IN  IF r.err # Nil
        THEN Return(NilPtr, Wrap("failed to search applications", r.err), r.reqs, r.logs, <<>>)
        ELSE LET resp == r.val[1]
                 perr == Client_parseJSONResponse(resp, "search applications")
             IN  IF perr # Nil
                 THEN Return(NilPtr, perr, r.reqs, r.logs, <<>>)
                 ELSE LET appList == DecodeApplicationPage(resp.Body)
                      IN  Return(Ptr(appList), Nil, r.reqs,
                                 r.logs \o ValidationWarnings(appList.Applications)
                                   \o <<LogRecord("INFO", "Successfully searched applications")>>,
                                 <<>>)

-----------------------------------------------------------------------------
(* pkg/api: the convenience methods of Client the tool handlers call *)

\* the slice expression s[lo:hi]: NilPtr when it panics (bounds out of range)
Slice(s, lo, hi) ==
    IF 0 <= lo /\ lo <= hi /\ hi <= Len(s) THEN Ptr(SubSeq(s, lo + 1, hi)) ELSE NilPtr

\* a Client.ListApplications that cuts the list at limit and does not skip
\* the first offset applications
Client_ListApplications_NoOffset(limit, offset, srv) ==
    LET l == ApplicationService_ListApplications(Ptr([ExcludeChannels |-> FALSE]), srv)
    IN  IF l.err # Nil THEN l
        ELSE LET apps == l.val[1].Applications
             IN  Return(Ptr([Applications |->
                                IF limit > 0 /\ limit < Len(apps)
                                THEN SubSeq(apps, 1, limit) ELSE apps]),
                        Nil, l.reqs, l.logs, <<>>)

\* Client.ListApplications(ctx, limit, offset): client-side pagination
Client_ListApplications(limit, offset, srv) ==
    LET l == ApplicationService_ListApplications(Ptr([ExcludeChannels |-> FALSE]), srv)
    IN  IF l.err # Nil THEN l
        ELSE LET apps == l.val[1].Applications
                 n == Len(apps)
                 page == IF offset > 0 /\ offset < n
                         THEN IF offset + limit <= n
                              THEN Slice(apps, offset, offset + limit)
                              ELSE Slice(apps, offset, n)
                         ELSE IF offset >= n
                              THEN Ptr(<<>>)
                              ELSE IF limit > 0 /\ limit < n
                                   THEN Slice(apps, 0, limit)
                                   ELSE Ptr(apps)
             IN  IF page = NilPtr
                 THEN Panic(l.reqs, l.logs, <<>>)
                 ELSE Return(Ptr([Applications |-> page[1]]), Nil, l.reqs, l.logs, <<>>)

\* Client.GetApplication
Client_GetApplication(appID, srv) == ApplicationService_GetApplication(appID, srv)

\* Client.SearchApplications: limit and offset are not used
Client_SearchApplications(query, limit, offset, srv) ==
    ApplicationService_SearchApplications(query, Ptr([ExcludeChannels |-> FALSE]), srv)

\* Client.ListReleases
Client_ListReleases(appID, limit, offset, srv) ==
    ReleaseService_List(appID, Ptr([Limit |-> limit, Offset |-> offset]), srv)

\* Client.GetRelease
Client_GetRelease(appID, releaseID, srv) == ReleaseService_Get(appID, releaseID, srv)

\* Client.SearchReleases
Client_SearchReleases(appID, query, limit, offset, srv) ==
    ReleaseService_Search(appID, Ptr([Query |-> query, Limit |-> limit, Offset |-> offset]), srv)

\* Client.ListChannels
Client_ListChannels(appID, limit, offset, srv) ==
    ChannelService_List(appID, Ptr([Limit |-> limit, Offset |-> offset]), srv)

\* Client.GetChannel
Client_GetChannel(appID, channelID, srv) == ChannelService_Get(appID, channelID, srv)

\* Client.SearchChannels
Client_SearchChannels(appID, query, limit, offset, srv) ==
    ChannelService_Search(appID, Ptr([Query |-> query, Limit |-> limit, Offset |-> offset]), srv)

\* Client.ListCustomers
Client_ListCustomers(appID, limit, offset, srv) ==
    CustomerService_List(appID, Ptr([Limit |-> limit, Offset |-> offset]), srv)

\* Client.GetCustomer
Client_GetCustomer(appID, customerID, srv) == CustomerService_Get(appID, customerID, srv)

\* Client.SearchCustomers
Client_SearchCustomers(appID, query, limit, offset, srv) ==
    CustomerService_Search(appID, Ptr([Query |-> query, Limit |-> limit, Offset |-> offset]), srv)

-----------------------------------------------------------------------------
(* pkg/mcp: the tool handlers.  The arguments of a tool call are a nil map *)
(* (NilPtr) or a map from argument names to JSON values; a JSON value is   *)
(* [type, s, n] with type "string" (s holds it), "number" (n holds it, in  *)
(* tenths), "bool", or "missing" when the key is not in the map.           *)

\* limit := 10 // default
DefaultLimit == 10

\* args[key].(string)
ArgString(args, key) ==
    [ok |-> args[1][key].type = "string", s |-> args[1][key].s]

\* int(f) of a float64 held in tenths: truncation toward zero
IntOfFloat(n) == IF n >= 0 THEN n \div 10 ELSE -((-n) \div 10)

\* "if l, ok := args[key]; ok { if f, ok := l.(float64); ok { v = int(f) } }"
ArgInt(args, key, default) ==
    IF args[1][key].type = "number" THEN IntOfFloat(args[1][key].n) ELSE default

\* json.Marshal of a service result: the text of the document
Marshal(v) == [json |-> v]

\* mcp.NewTextContent
NewTextContent(text) == [Type |-> "text", Text |-> text]

\* a handler tail that reports a failed service call inside a call result
\* (an error text block) and returns no error
ToolResult_ErrorAsContent(r, failMsg, called, ops) ==
    IF r.panic THEN Panic(r.reqs, called \o r.logs, ops)
    ELSE IF r.err # Nil
         THEN Return(Ptr([Content |-> <<NewTextContent(failMsg)>>]), Nil,
                     r.reqs, called \o r.logs, ops)
         ELSE Return(Ptr([Content |-> <<NewTextContent(Marshal(r.val[1]))>>]), Nil,
                     r.reqs, called \o r.logs, ops)

\* the tail of every handler: wrap the client's error, or marshal its result
\* into the one text block of a CallToolResult
ToolResult(r, failMsg, called, ops) ==
    IF r.panic THEN Panic(r.reqs, called \o r.logs, ops)
    ELSE IF r.err # Nil
         THEN Return(NilPtr, Wrap(failMsg, r.err), r.reqs, called \o r.logs, ops)
         ELSE Return(Ptr([Content |-> <<NewTextContent(Marshal(r.val[1]))>>]), Nil,
                     r.reqs, called \o r.logs, ops)

\* Server.handleListApplications: no required argument, a nil map is accepted
handleListApplications(args, srv) ==
    LET called == <<LogRecord("INFO", "list_applications tool called")>>
        limit == IF args = NilPtr THEN DefaultLimit ELSE ArgInt(args, "limit", DefaultLimit)
        offset == IF args = NilPtr THEN 0 ELSE ArgInt(args, "offset", 0)
    IN  ToolResult(Client_ListApplications(limit, offset, srv),
                   "failed to list applications", called,
                   <<PagedCall("ListApplications", limit, offset)>>)

\* Server.handleGetApplication
handleGetApplication(args, srv) ==
    LET called == <<LogRecord("INFO", "get_application tool called")>>
        appID == ArgString(args, "app_id")
    IN  IF args = NilPtr
        THEN Return(NilPtr, NewError("missing arguments"), <<>>, called, <<>>)
        ELSE IF ~appID.ok
        THEN Return(NilPtr, NewError("app_id argument is required and must be a string"),
                    <<>>, called, <<>>)
        ELSE ToolResult(Client_GetApplication(appID.s, srv),
                        "failed to get application", called,
                        <<PlainCall("GetApplication")>>)

\* Server.handleSearchApplications
handleSearchApplications(args, srv) ==
    LET called == <<LogRecord("INFO", "search_applications tool called")>>
        query == ArgString(args, "query")
        limit == ArgInt(args, "limit", DefaultLimit)
    IN  IF args = NilPtr
        THEN Return(NilPtr, NewError("missing arguments"), <<>>, called, <<>>)
        ELSE IF ~query.ok
        THEN Return(NilPtr, NewError("query argument is required and must be a string"),
                    <<>>, called, <<>>)
        ELSE ToolResult(Client_SearchApplications(query.s, limit, 0, srv),
                        "failed to search applications", called,
                        <<PagedCall("SearchApplications", limit, 0)>>)

\* Server.handleListReleases
handleListReleases(args, srv) ==
    LET called == <<LogRecord("INFO", "list_releases tool called")>>
        appID == ArgString(args, "app_id")
        limit == ArgInt(args, "limit", DefaultLimit)
        offset == ArgInt(args, "offset", 0)
    IN  IF args = NilPtr
        THEN Return(NilPtr, NewError("missing arguments"), <<>>, called, <<>>)
        ELSE IF ~appID.ok
        THEN Return(NilPtr, NewError("app_id argument is required and must be a string"),
                    <<>>, called, <<>>)
        ELSE ToolResult(Client_ListReleases(appID.s, limit, offset, srv),
                        "failed to list releases", called,
                        <<PagedCall("ListReleases", limit, offset)>>)

\* a handleGetRelease that does not test release_id
handleGetRelease_Unchecked(args, srv) ==
    LET called == <<LogRecord("INFO", "get_release tool called")>>
        appID == ArgString(args, "app_id")
        releaseID == ArgString(args, "release_id")
    IN  IF args = NilPtr
        THEN Return(NilPtr, NewError("missing arguments"), <<>>, called, <<>>)
        ELSE IF ~appID.ok
        THEN Return(NilPtr, NewError("app_id argument is required and must be a string"),
                    <<>>, called, <<>>)
        ELSE ToolResult(Client_GetRelease(appID.s, releaseID.s, srv),
                        "failed to get release", called,
                        <<PlainCall("GetRelease")>>)

\* Server.handleGetRelease
handleGetRelease(args, srv) ==
    LET called == <<LogRecord("INFO", "get_release tool called")>>
        appID == ArgString(args, "app_id")
        releaseID == ArgString(args, "release_id")
    IN  IF args = NilPtr
        THEN Return(NilPtr, NewError("missing arguments"), <<>>, called, <<>>)
        ELSE IF ~appID.ok
        THEN Return(NilPtr, NewError("app_id argument is required and must be a string"),
                    <<>>, called, <<>>)
        ELSE IF ~releaseID.ok
        THEN Return(NilPtr, NewError("release_id argument is required and must be a string"),
                    <<>>, called, <<>>)
        ELSE ToolResult(Client_GetRelease(appID.s, releaseID.s, srv),
                        "failed to get release", called,
                        <<PlainCall("GetRelease")>>)

\* Server.handleSearchReleases
handleSearchReleases(args, srv) ==
    LET called == <<LogRecord("INFO", "search_releases tool called")>>
        appID == ArgString(args, "app_id")
        query == ArgString(args, "query")
        limit == ArgInt(args, "limit", DefaultLimit)
    IN  IF args = NilPtr
        THEN Return(NilPtr, NewError("missing arguments"), <<>>, called, <<>>)
        ELSE IF ~appID.ok
        THEN Return(NilPtr, NewError("app_id argument is required and must be a string"),
                    <<>>, called, <<>>)
        ELSE IF ~query.ok
        THEN Return(NilPtr, NewError("query argument is required and must be a string"),
                    <<>>, called, <<>>)
        ELSE ToolResult(Client_SearchReleases(appID.s, query.s, limit, 0, srv),
                        "failed to search releases", called,
                        <<PagedCall("SearchReleases", limit, 0)>>)

\* Server.handleListChannels
handleListChannels(args, srv) ==
    LET called == <<LogRecord("INFO", "list_channels tool called")>>
        appID == ArgString(args, "app_id")
        limit == ArgInt(args, "limit", DefaultLimit)
        offset == ArgInt(args, "offset", 0)
    IN  IF args = NilPtr
        THEN Return(NilPtr, NewError("missing arguments"), <<>>, called, <<>>)
        ELSE IF ~appID.ok
        THEN Return(NilPtr, NewError("app_id argument is required and must be a string"),
                    <<>>, called, <<>>)
        ELSE ToolResult(Client_ListChannels(appID.s, limit, offset, srv),
                        "failed to list channels", called,
                        <<PagedCall("ListChannels", limit, offset)>>)

\* Server.handleGetChannel
handleGetChannel(args, srv) ==
    LET called == <<LogRecord("INFO", "get_channel tool called")>>
        appID == ArgString(args, "app_id")
        channelID == ArgString(args, "channel_id")
    IN  IF args = NilPtr
        THEN Return(NilPtr, NewError("missing arguments"), <<>>, called, <<>>)
        ELSE IF ~appID.ok
        THEN Return(NilPtr, NewError("app_id argument is required and must be a string"),
                    <<>>, called, <<>>)
        ELSE IF ~channelID.ok
        THEN Return(NilPtr, NewError("channel_id argument is required and must be a string"),
                    <<>>, called, <<>>)
        ELSE ToolResult(Client_GetChannel(appID.s, channelID.s, srv),
                        "failed to get channel", called,
                        <<PlainCall("GetChannel")>>)

\* Server.handleSearchChannels
handleSearchChannels(args, srv) ==
    LET called == <<LogRecord("INFO", "search_channels tool called")>>
        appID == ArgString(args, "app_id")
        query == ArgString(args, "query")
        limit == ArgInt(args, "limit", DefaultLimit)
    IN  IF args = NilPtr
        THEN Return(NilPtr, NewError("missing arguments"), <<>>, called, <<>>)
        ELSE IF ~appID.ok
        THEN Return(NilPtr, NewError("app_id argument is required and must be a string"),
                    <<>>, called, <<>>)
        ELSE IF ~query.ok
        THEN Return(NilPtr, NewError("query argument is required and must be a string"),
                    <<>>, called, <<>>)
        ELSE ToolResult(Client_SearchChannels(appID.s, query.s, limit, 0, srv),
                        "failed to search channels", called,
                        <<PagedCall("SearchChannels", limit, 0)>>)

\* Server.handleListCustomers
handleListCustomers(args, srv) ==
    LET called == <<LogRecord("INFO", "list_customers tool called")>>
        appID == ArgString(args, "app_id")
        limit == ArgInt(args, "limit", DefaultLimit)
        offset == ArgInt(args, "offset", 0)
    IN  IF args = NilPtr
        THEN Return(NilPtr, NewError("missing arguments"), <<>>, called, <<>>)
        ELSE IF ~appID.ok
        THEN Return(NilPtr, NewError("app_id argument is required and must be a string"),
                    <<>>, called, <<>>)
        ELSE ToolResult(Client_ListCustomers(appID.s, limit, offset, srv),
                        "failed to list customers", called,
                        <<PagedCall("ListCustomers", limit, offset)>>)

\* Server.handleGetCustomer
handleGetCustomer(args, srv) ==
    LET called == <<LogRecord("INFO", "get_customer tool called")>>
        appID == ArgString(args, "app_id")
        customerID == ArgString(args, "customer_id")
    IN  IF args = NilPtr
        THEN Return(NilPtr, NewError("missing arguments"), <<>>, called, <<>>)
        ELSE IF ~appID.ok
        THEN Return(NilPtr, NewError("app_id argument is required and must be a string"),
                    <<>>, called, <<>>)
        ELSE IF ~customerID.ok
        THEN Return(NilPtr, NewError("customer_id argument is required and must be a string"),
                    <<>>, called, <<>>)
        ELSE ToolResult(Client_GetCustomer(appID.s, customerID.s, srv),
                        "failed to get customer", called,
                        <<PlainCall("GetCustomer")>>)

\* Server.handleSearchCustomers
handleSearchCustomers(args, srv) ==
    LET called == <<LogRecord("INFO", "search_customers tool called")>>
        appID == ArgString(args, "app_id")
        query == ArgString(args, "query")
        limit == ArgInt(args, "limit", DefaultLimit)
    IN  IF args = NilPtr
        THEN Return(NilPtr, NewError("missing arguments"), <<>>, called, <<>>)
        ELSE IF ~appID.ok
        THEN Return(NilPtr, NewError("app_id argument is required and must be a string"),
                    <<>>, called, <<>>)
        ELSE IF ~query.ok
        THEN Return(NilPtr, NewError("query argument is required and must be a string"),
                    <<>>, called, <<>>)
        ELSE ToolResult(Client_SearchCustomers(appID.s, query.s, limit, 0, srv),
                        "failed to search customers", called,
                        <<PagedCall("SearchCustomers", limit, 0)>>)

-----------------------------------------------------------------------------
(* The calls and the answers explored under Spec *)

\* the longest list a response carries
MaxItems == 2

\* identifiers a caller passes: empty, plain, one with a path separator and
\* one with the mark that starts a query
SampleIDs == {<<>>, <<"a">>, <<"x", "/", "y">>, <<"x", "?", "y">>}

\* queries a caller passes: empty, white space only, padded, plain
SampleQueries == {<<>>, <<" ", " ">>, <<"\t">>, <<" ", "W", " ">>, <<"a">>}

SampleLimits == {-1, 0, 1, 10}

SampleOffsets == {-1, 0, 1}

\* *ListOptions{Limit, Offset}
SampleListOptions ==
    {NilPtr} \cup {Ptr([Limit |-> l, Offset |-> o]) : l \in {0, 1}, o \in {0, 1}}

\* *SearchOptions{Query, Limit, Offset}
SampleSearchOptions ==
    {NilPtr} \cup {Ptr([Query |-> q, Limit |-> l, Offset |-> 0]) :
                       q \in SampleQueries, l \in {0, 1}}

\* *ListApplicationsOptions{ExcludeChannels}
SampleApplicationsOptions ==
    {NilPtr, Ptr([ExcludeChannels |-> FALSE]), Ptr([ExcludeChannels |-> TRUE])}

\* *ListOptions{Page, PageSize, Limit} of applications.go and of the v1 client
SamplePageOptions ==
    {NilPtr, Ptr([Page |-> 0, PageSize |-> 0, Limit |-> 0]),
     Ptr([Page |-> 2, PageSize |-> 5, Limit |-> 1])}

\* what a response body can decode into, by entity: one entity that is in
\* order and one that is not (no id), with different searchable fields
SampleItems ==
    [application |->
        {BaseApplication,
         [BaseApplication EXCEPT !.ID = <<>>, !.Name = <<"W", "e", "b">>,
                                 !.Slug = <<"w", "e", "b">>]},
     release |->
        {[ID |-> <<"r">>, Sequence |-> 1, Version |-> <<"1", ".", "0", ".", "0">>,
          ReleaseNotes |-> <<>>, Required |-> FALSE, Status |-> <<>>,
          CreatedAt |-> 2, UpdatedAt |-> 2],
         [ID |-> <<>>, Sequence |-> 0, Version |-> <<"W">>,
          ReleaseNotes |-> <<>>, Required |-> FALSE, Status |-> <<>>,
          CreatedAt |-> 0, UpdatedAt |-> 0]},
     channel |->
        {[ID |-> <<"c">>, Name |-> <<"S", "t", "a", "b", "l", "e">>,
          Slug |-> <<"s", "t", "a", "b", "l", "e">>, Description |-> <<>>,
          IsDefault |-> TRUE, CreatedAt |-> 2, UpdatedAt |-> 2],
         [ID |-> <<>>, Name |-> <<"W", "e", "b">>, Slug |-> <<>>, Description |-> <<>>,
          IsDefault |-> FALSE, CreatedAt |-> 0, UpdatedAt |-> 0]},
     customer |->
        {[ID |-> <<"k">>, Name |-> <<"A", "c", "m", "e">>, Email |-> <<"t", "@", "e", ".", "c">>,
          Type |-> <<"p", "a", "i", "d">>, Status |-> <<>>, LicenseID |-> <<"l">>,
          ChannelID |-> <<"c">>, ChannelName |-> <<"S", "t", "a", "b", "l", "e">>,
          CreatedAt |-> 2, UpdatedAt |-> 2],
         [ID |-> <<>>, Name |-> <<"W", "e", "b">>, Email |-> <<>>,
          Type |-> <<>>, Status |-> <<>>, LicenseID |-> <<>>,
          ChannelID |-> <<>>, ChannelName |-> <<>>,
          CreatedAt |-> 0, UpdatedAt |-> 0]}]

\* the sequences over S of length at most n
SeqsUpTo(S, n) == UNION {[1..k -> S] : k \in 0..n}

\* a response body: whether reading it succeeds, whether it is well-formed
\* JSON, and what its fields decode into
Body(readable, wellformed, message, list, item) ==
    [readable |-> readable, wellformed |-> wellformed, message |-> message,
     list |-> list, item |-> item, total_count |-> Len(list), page |-> 1,
     page_size |-> Len(list), has_more |-> FALSE]

\* the bodies of list and search responses
ListBodies(entity) ==
    LET any == CHOOSE i \in SampleItems[entity] : TRUE
    IN  {Body(FALSE, FALSE, "", <<>>, any), Body(TRUE, FALSE, "", <<>>, any),
         Body(TRUE, TRUE, "denied", <<>>, any)}
        \cup {Body(TRUE, TRUE, "", l, any) : l \in SeqsUpTo(SampleItems[entity], MaxItems)}

\* the bodies of get responses
ItemBodies(entity) ==
    LET any == CHOOSE i \in SampleItems[entity] : TRUE
    IN  {Body(FALSE, FALSE, "", <<>>, any), Body(TRUE, FALSE, "", <<>>, any),
         Body(TRUE, TRUE, "denied", <<>>, any)}
        \cup {Body(TRUE, TRUE, "", <<>>, i) : i \in SampleItems[entity]}

\* the status codes the vendor API answers with
Statuses == {200, 204, 300, 400, 404, 500}

\* how the vendor API answers: the transport fails, or a response arrives, or
\* the caller's context ends while the request is in flight (status and body
\* are then the response that would have arrived)
Servers(bodies) ==
    {[kind |-> "transport_error", status |-> 0, body |-> Body(FALSE, FALSE, "", <<>>, <<>>)]}
    \cup {[kind |-> "response", status |-> st, body |-> b] : st \in Statuses, b \in bodies}
    \cup {[kind |-> "context_done", status |-> 200, body |-> b] : b \in bodies}

\* JSON values of tool arguments
Missing == [type |-> "missing", s |-> <<>>, n |-> 0]

StringValue(str) == [type |-> "string", s |-> str, n |-> 0]

NumberValue(tenths) == [type |-> "number", s |-> <<>>, n |-> tenths]

BoolValue == [type |-> "bool", s |-> <<>>, n |-> 0]

ArgKeys == {"app_id", "release_id", "channel_id", "customer_id", "query", "limit", "offset"}

SampleIDValues == {Missing, NumberValue(10), StringValue(<<>>), StringValue(<<"a">>)}

SampleQueryValues == {Missing, BoolValue, StringValue(<<" ">>), StringValue(<<"W">>)}

SampleNumberValues ==
    {Missing, StringValue(<<"5">>), NumberValue(-10), NumberValue(15), NumberValue(20),
     NumberValue(1500)}

\* the argument maps of a tool call: nil, or a map that gives the keys of
\* each of ids, queries, numbers a sample value and has no other key
SampleArgs(ids, queries, numbers) ==
    {NilPtr} \cup
    {Ptr([k \in ArgKeys |-> IF k \in ids THEN i[k]
                             ELSE IF k \in queries THEN q[k]
                             ELSE IF k \in numbers THEN n[k]
                             ELSE Missing]) :
        i \in [ids -> SampleIDValues], q \in [queries -> SampleQueryValues],
        n \in [numbers -> SampleNumberValues]}

-----------------------------------------------------------------------------
(* Spec: one call at a time is served from start to end, then the next.    *)
(* A call is recorded with the operation, the layer it belongs to          *)
(* ("service", "client" for the convenience methods, "handler"), its kind, *)
(* the entity, and its inputs; inputs that the operation does not have are *)
(* left empty.                                                             *)

NoEntity == [kind |-> "none", val |-> <<>>]

Init ==
    /\ ent = NoEntity
    /\ verr = Nil
    /\ vpc = "unused"
    /\ call = IdleCall
    /\ server = IdleServer
    /\ wire = <<>>
    /\ outcome = NoOutcome
    /\ logs = <<>>
    /\ svc = <<>>
    /\ pc = "idle"
    /\ running = [g \in Goroutines |-> IdleFrame]
    /\ shared = ServerFields
    /\ proc = IdleProcess
    /\ stdout = <<>>
    /\ stderr = <<>>

Operation(op, layer, kind, entity, needsApp, appID, id, opts, query, limit, offset, args) ==
    [op |-> op, layer |-> layer, kind |-> kind, entity |-> entity, needsApp |-> needsApp,
     appID |-> appID, id |-> id, opts |-> opts, query |-> query, limit |-> limit,
     offset |-> offset, args |-> args]

\* the call c, answered by srv, ran to its end with result r
Serve(c, srv, r) ==
    /\ call' = c
    /\ server' = srv
    /\ wire' = r.reqs
    /\ outcome' = [val |-> r.val, err |-> r.err, panic |-> r.panic]
    /\ logs' = r.logs
    /\ svc' = r.ops
    /\ pc' = "done"
    /\ UNCHANGED <<ent, verr, vpc, running, shared, proc, stdout, stderr>>

\* the caller has its answer; the server is ready for the next call
Return_ ==
    /\ pc = "done"
    /\ call' = IdleCall
    /\ server' = IdleServer
    /\ wire' = <<>>
    /\ outcome' = NoOutcome
    /\ logs' = <<>>
    /\ svc' = <<>>
    /\ pc' = "idle"
    /\ UNCHANGED <<ent, verr, vpc, running, shared, proc, stdout, stderr>>

(* the operations of the entity services *)

CallApplicationService_ListApplications ==
    /\ pc = "idle"
    /\ \E opts \in SampleApplicationsOptions :
       \E srv \in Servers(ListBodies("application")) :
           Serve(Operation("ApplicationService.ListApplications", "service", "list", "application", FALSE,
                           <<>>, <<>>, opts, <<>>, 0, 0, NilPtr),
                 srv, ApplicationService_ListApplications(opts, srv))

CallApplicationService_GetApplication ==
    /\ pc = "idle"
    /\ \E id \in SampleIDs :
       \E srv \in Servers(ItemBodies("application")) :
           Serve(Operation("ApplicationService.GetApplication", "service", "get", "application", FALSE,
                           <<>>, id, NilPtr, <<>>, 0, 0, NilPtr),
                 srv, ApplicationService_GetApplication(id, srv))

CallApplicationService_SearchApplications ==
    /\ pc = "idle"
    /\ \E query \in SampleQueries :
       \E opts \in SampleApplicationsOptions :
       \E srv \in Servers(ListBodies("application")) :
           Serve(Operation("ApplicationService.SearchApplications", "service", "search", "application", FALSE,
                           <<>>, <<>>, opts, query, 0, 0, NilPtr),
                 srv, ApplicationService_SearchApplications(query, opts, srv))

CallApplicationService_ListApplications_paged ==
    /\ pc = "idle"
    /\ \E opts \in SamplePageOptions :
       \E srv \in Servers(ListBodies("application")) :
           Serve(Operation("ApplicationService.ListApplications/paged", "service", "list", "application", FALSE,
                           <<>>, <<>>, opts, <<>>, 0, 0, NilPtr),
                 srv, ApplicationService_ListApplications_paged(opts, srv))

CallApplicationService_SearchApplications_paged ==
    /\ pc = "idle"
    /\ \E query \in SampleQueries :
       \E opts \in SamplePageOptions :
       \E srv \in Servers(ListBodies("application")) :
           Serve(Operation("ApplicationService.SearchApplications/paged", "service", "search", "application", FALSE,
                           <<>>, <<>>, opts, query, 0, 0, NilPtr),
                 srv, ApplicationService_SearchApplications_paged(query, opts, srv))

CallClient_ListApplications_v1 ==
    /\ pc = "idle"
    /\ \E opts \in SamplePageOptions :
       \E srv \in Servers(ListBodies("application")) :
           Serve(Operation("Client.ListApplications/v1", "service", "list", "application", FALSE,
                           <<>>, <<>>, opts, <<>>, 0, 0, NilPtr),
                 srv, Client_ListApplications_v1(opts, srv))

CallClient_GetApplication_v1 ==
    /\ pc = "idle"
    /\ \E id \in SampleIDs :
       \E srv \in Servers(ItemBodies("application")) :
           Serve(Operation("Client.GetApplication/v1", "service", "get", "application", FALSE,
                           <<>>, id, NilPtr, <<>>, 0, 0, NilPtr),
                 srv, Client_GetApplication_v1(id, srv))

CallClient_SearchApplications_v1 ==
    /\ pc = "idle"
    /\ \E query \in SampleQueries :
       \E opts \in SamplePageOptions :
       \E srv \in Servers(ListBodies("application")) :
           Serve(Operation("Client.SearchApplications/v1", "service", "search", "application", FALSE,
                           <<>>, <<>>, opts, query, 0, 0, NilPtr),
                 srv, Client_SearchApplications_v1(query, opts, srv))

CallReleaseService_List ==
    /\ pc = "idle"
    /\ \E appID \in SampleIDs :
       \E opts \in SampleListOptions :
       \E srv \in Servers(ListBodies("release")) :
           Serve(Operation("ReleaseService.List", "service", "list", "release", TRUE,
                           appID, <<>>, opts, <<>>, OptLimit(opts), OptOffset(opts), NilPtr),
                 srv, ReleaseService_List(appID, opts, srv))

CallReleaseService_Get ==
    /\ pc = "idle"
    /\ \E appID \in SampleIDs :
       \E id \in SampleIDs :
       \E srv \in Servers(ItemBodies("release")) :
           Serve(Operation("ReleaseService.Get", "service", "get", "release", TRUE,
                           appID, id, NilPtr, <<>>, 0, 0, NilPtr),
                 srv, ReleaseService_Get(appID, id, srv))

CallReleaseService_Search ==
    /\ pc = "idle"
    /\ \E appID \in SampleIDs :
       \E opts \in SampleSearchOptions :
       \E srv \in Servers(ListBodies("release")) :
           Serve(Operation("ReleaseService.Search", "service", "search", "release", TRUE,
                           appID, <<>>, opts,
                           IF opts = NilPtr THEN <<>> ELSE opts[1].Query,
                           OptLimit(opts), OptOffset(opts), NilPtr),
                 srv, ReleaseService_Search(appID, opts, srv))

CallChannelService_List ==
    /\ pc = "idle"
    /\ \E appID \in SampleIDs :
       \E opts \in SampleListOptions :
       \E srv \in Servers(ListBodies("channel")) :
           Serve(Operation("ChannelService.List", "service", "list", "channel", TRUE,
                           appID, <<>>, opts, <<>>, OptLimit(opts), OptOffset(opts), NilPtr),
                 srv, ChannelService_List(appID, opts, srv))

CallChannelService_Get ==
    /\ pc = "idle"
    /\ \E appID \in SampleIDs :
       \E id \in SampleIDs :
       \E srv \in Servers(ItemBodies("channel")) :
           Serve(Operation("ChannelService.Get", "service", "get", "channel", TRUE,
                           appID, id, NilPtr, <<>>, 0, 0, NilPtr),
                 srv, ChannelService_Get(appID, id, srv))

CallChannelService_Search ==
    /\ pc = "idle"
    /\ \E appID \in SampleIDs :
       \E opts \in SampleSearchOptions :
       \E srv \in Servers(ListBodies("channel")) :
           Serve(Operation("ChannelService.Search", "service", "search", "channel", TRUE,
                           appID, <<>>, opts,
                           IF opts = NilPtr THEN <<>> ELSE opts[1].Query,
                           OptLimit(opts), OptOffset(opts), NilPtr),
                 srv, ChannelService_Search(appID, opts, srv))

CallCustomerService_List ==
    /\ pc = "idle"
    /\ \E appID \in SampleIDs :
       \E opts \in SampleListOptions :
       \E srv \in Servers(ListBodies("customer")) :
           Serve(Operation("CustomerService.List", "service", "list", "customer", TRUE,
                           appID, <<>>, opts, <<>>, OptLimit(opts), OptOffset(opts), NilPtr),
                 srv, CustomerService_List(appID, opts, srv))

CallCustomerService_Get ==
    /\ pc = "idle"
    /\ \E appID \in SampleIDs :
       \E id \in SampleIDs :
       \E srv \in Servers(ItemBodies("customer")) :
           Serve(Operation("CustomerService.Get", "service", "get", "customer", TRUE,
                           appID, id, NilPtr, <<>>, 0, 0, NilPtr),
                 srv, CustomerService_Get(appID, id, srv))

CallCustomerService_Search ==
    /\ pc = "idle"
    /\ \E appID \in SampleIDs :
       \E opts \in SampleSearchOptions :
       \E srv \in Servers(ListBodies("customer")) :
           Serve(Operation("CustomerService.Search", "service", "search", "customer", TRUE,
                           appID, <<>>, opts,
                           IF opts = NilPtr THEN <<>> ELSE opts[1].Query,
                           OptLimit(opts), OptOffset(opts), NilPtr),
                 srv, CustomerService_Search(appID, opts, srv))

(* the convenience method of Client that paginates; the others pass their  *)
(* arguments on and are reached through the handlers                      *)

CallClient_ListApplications ==
    /\ pc = "idle"
    /\ \E limit \in SampleLimits :
       \E offset \in SampleOffsets :
       \E srv \in Servers(ListBodies("application")) :
           Serve(Operation("Client.ListApplications", "client", "list", "application", FALSE,
                           <<>>, <<>>, NilPtr, <<>>, limit, offset, NilPtr),
                 srv, Client_ListApplications(limit, offset, srv))

(* the tool handlers *)

CallhandleListApplications ==
    /\ pc = "idle"
    /\ \E args \in SampleArgs({}, {}, {"limit", "offset"}) :
       \E srv \in Servers(ListBodies("application")) :
           Serve(Operation("list_applications", "handler", "list", "application", FALSE,
                           <<>>, <<>>, NilPtr, <<>>, 0, 0, args),
                 srv, handleListApplications(args, srv))

CallhandleGetApplication ==
    /\ pc = "idle"
    /\ \E args \in SampleArgs({"app_id"}, {}, {}) :
       \E srv \in Servers(ItemBodies("application")) :
           Serve(Operation("get_application", "handler", "get", "application", FALSE,
                           <<>>, <<>>, NilPtr, <<>>, 0, 0, args),
                 srv, handleGetApplication(args, srv))

CallhandleSearchApplications ==
    /\ pc = "idle"
    /\ \E args \in SampleArgs({}, {"query"}, {"limit"}) :
       \E srv \in Servers(ListBodies("application")) :
           Serve(Operation("search_applications", "handler", "search", "application", FALSE,
                           <<>>, <<>>, NilPtr, <<>>, 0, 0, args),
                 srv, handleSearchApplications(args, srv))

CallhandleListReleases ==
    /\ pc = "idle"
    /\ \E args \in SampleArgs({"app_id"}, {}, {"limit", "offset"}) :
       \E srv \in Servers(ListBodies("release")) :
           Serve(Operation("list_releases", "handler", "list", "release", TRUE,
                           <<>>, <<>>, NilPtr, <<>>, 0, 0, args),
                 srv, handleListReleases(args, srv))

CallhandleGetRelease ==
    /\ pc = "idle"
    /\ \E args \in SampleArgs({"app_id", "release_id"}, {}, {}) :
       \E srv \in Servers(ItemBodies("release")) :
           Serve(Operation("get_release", "handler", "get", "release", TRUE,
                           <<>>, <<>>, NilPtr, <<>>, 0, 0, args),
                 srv, handleGetRelease(args, srv))

CallhandleSearchReleases ==
    /\ pc = "idle"
    /\ \E args \in SampleArgs({"app_id"}, {"query"}, {"limit"}) :
       \E srv \in Servers(ListBodies("release")) :
           Serve(Operation("search_releases", "handler", "search", "release", TRUE,
                           <<>>, <<>>, NilPtr, <<>>, 0, 0, args),
                 srv, handleSearchReleases(args, srv))

CallhandleListChannels ==
    /\ pc = "idle"
    /\ \E args \in SampleArgs({"app_id"}, {}, {"limit", "offset"}) :
       \E srv \in Servers(ListBodies("channel")) :
           Serve(Operation("list_channels", "handler", "list", "channel", TRUE,
                           <<>>, <<>>, NilPtr, <<>>, 0, 0, args),
                 srv, handleListChannels(args, srv))

CallhandleGetChannel ==
    /\ pc = "idle"
    /\ \E args \in SampleArgs({"app_id", "channel_id"}, {}, {}) :
       \E srv \in Servers(ItemBodies("channel")) :
           Serve(Operation("get_channel", "handler", "get", "channel", TRUE,
                           <<>>, <<>>, NilPtr, <<>>, 0, 0, args),
                 srv, handleGetChannel(args, srv))

CallhandleSearchChannels ==
    /\ pc = "idle"
    /\ \E args \in SampleArgs({"app_id"}, {"query"}, {"limit"}) :
       \E srv \in Servers(ListBodies("channel")) :
           Serve(Operation("search_channels", "handler", "search", "channel", TRUE,
                           <<>>, <<>>, NilPtr, <<>>, 0, 0, args),
                 srv, handleSearchChannels(args, srv))

CallhandleListCustomers ==
    /\ pc = "idle"
    /\ \E args \in SampleArgs({"app_id"}, {}, {"limit", "offset"}) :
       \E srv \in Servers(ListBodies("customer")) :
           Serve(Operation("list_customers", "handler", "list", "customer", TRUE,
                           <<>>, <<>>, NilPtr, <<>>, 0, 0, args),
                 srv, handleListCustomers(args, srv))

CallhandleGetCustomer ==
    /\ pc = "idle"
    /\ \E args \in SampleArgs({"app_id", "customer_id"}, {}, {}) :
       \E srv \in Servers(ItemBodies("customer")) :
           Serve(Operation("get_customer", "handler", "get", "customer", TRUE,
                           <<>>, <<>>, NilPtr, <<>>, 0, 0, args),
                 srv, handleGetCustomer(args, srv))

CallhandleSearchCustomers ==
    /\ pc = "idle"
    /\ \E args \in SampleArgs({"app_id"}, {"query"}, {"limit"}) :
       \E srv \in Servers(ListBodies("customer")) :
           Serve(Operation("search_customers", "handler", "search", "customer", TRUE,
                           <<>>, <<>>, NilPtr, <<>>, 0, 0, args),
                 srv, handleSearchCustomers(args, srv))

Next ==
    \/ CallApplicationService_ListApplications
    \/ CallApplicationService_GetApplication
    \/ CallApplicationService_SearchApplications
    \/ CallApplicationService_ListApplications_paged
    \/ CallApplicationService_SearchApplications_paged
    \/ CallClient_ListApplications_v1
    \/ CallClient_GetApplication_v1
    \/ CallClient_SearchApplications_v1
    \/ CallReleaseService_List
    \/ CallReleaseService_Get
    \/ CallReleaseService_Search
    \/ CallChannelService_List
    \/ CallChannelService_Get
    \/ CallChannelService_Search
    \/ CallCustomerService_List
    \/ CallCustomerService_Get
    \/ CallCustomerService_Search
    \/ CallClient_ListApplications
    \/ CallhandleListApplications
    \/ CallhandleGetApplication
    \/ CallhandleSearchApplications
    \/ CallhandleListReleases
    \/ CallhandleGetRelease
    \/ CallhandleSearchReleases
    \/ CallhandleListChannels
    \/ CallhandleGetChannel
    \/ CallhandleSearchChannels
    \/ CallhandleListCustomers
    \/ CallhandleGetCustomer
    \/ CallhandleSearchCustomers
    \/ Return_

Spec == Init /\ [][Next]_vars

-----------------------------------------------------------------------------
(* Properties of the services and of the tool handlers, checked under Spec *)

\* the argument names a tool requires to be strings
RequiredKeys(c) ==
    (IF c.needsApp \/ c.kind = "get" THEN {"app_id"} ELSE {})
    \cup (IF c.kind = "get" /\ c.entity # "application" THEN {c.entity \o "_id"} ELSE {})
    \cup (IF c.kind = "search" THEN {"query"} ELSE {})

\* every required argument of the tool call is present and is a string
RequiredArgsAreStrings(c) ==
    /\ c.args # NilPtr
    /\ \A k \in RequiredKeys(c) : c.args[1][k].type = "string"

\* a Get whose entity id or parent application id is the empty string
GetWithEmptyID(c) ==
    /\ c.kind = "get"
    /\ IF c.layer = "handler"
       THEN /\ RequiredArgsAreStrings(c)
            /\ \E k \in RequiredKeys(c) : c.args[1][k].s = <<>>
       ELSE c.id = <<>> \/ (c.needsApp /\ c.appID = <<>>)

\* C3: every Get called with an empty required identifier (the entity id, or
\* the parent application id where there is one) returns an error and no
\* result, and no HTTP request reaches the transport.
C3_GetWithEmptyIDFailsBeforeNetwork ==
    (pc = "done" /\ GetWithEmptyID(call)) =>
        /\ outcome.err # Nil
        /\ outcome.val = NilPtr
        /\ ~outcome.panic
        /\ wire = <<>>

\* C3 witness: ReleaseService.Get was called for an application with an empty
\* release id and failed without a request.
C3_Witness ==
    /\ pc = "done"
    /\ call.op = "ReleaseService.Get"
    /\ call.appID # <<>>
    /\ call.id = <<>>
    /\ outcome.err # Nil
    /\ wire = <<>>

\* a Search whose query is empty or consists of white space only
SearchWithBlankQuery(c) ==
    /\ c.kind = "search"
    /\ IF c.layer = "handler"
       THEN /\ RequiredArgsAreStrings(c)
            /\ TrimSpace(c.args[1]["query"].s) = <<>>
       ELSE /\ c.layer = "client" \/ ~c.needsApp \/ c.opts # NilPtr
            /\ TrimSpace(c.query) = <<>>

\* C4: every Search called with an empty or white-space-only query returns an
\* error and no HTTP request reaches the transport.
C4_SearchWithBlankQueryFailsBeforeNetwork ==
    (pc = "done" /\ SearchWithBlankQuery(call)) =>
        /\ outcome.err # Nil
        /\ wire = <<>>

\* the vendor API answered the request of this call with a response
Answered == wire # <<>> /\ server.kind = "response"

\* err is, or wraps, an *Error carrying the status code
IsAPIError(err, status) == \E i \in DOMAIN err : err[i].status = status

\* C5: whenever the vendor API answers with a status outside 200-299, the
\* service operation returns an API error carrying that status, and no result.
C5_NonSuccessStatusGivesAPIError ==
    (pc = "done" /\ call.layer \in {"service", "client"} /\ Answered
        /\ server.status \notin 200..299) =>
        /\ outcome.val = NilPtr
        /\ IsAPIError(outcome.err, server.status)

\* C6: every service operation ends with a result and a nil error, or with no
\* result and an error; never with both and never with neither.
C6_ResultOrErrorNeverBothNorNeither ==
    (pc = "done" /\ call.layer \in {"service", "client"}) =>
        /\ ~outcome.panic
        /\ \/ outcome.val # NilPtr /\ outcome.err = Nil
           \/ outcome.val = NilPtr /\ outcome.err # Nil

\* C7: a call puts at most one HTTP request on the wire, whatever the answer
\* (no retry after a transport error or an error response).
C7_AtMostOneRequestPerCall == pc = "done" => Len(wire) <= 1

\* C7 witness: a call whose one request met a transport error ended with an
\* error and that one request.
C7_Witness ==
    /\ pc = "done"
    /\ server.kind = "transport_error"
    /\ Len(wire) = 1
    /\ outcome.err # Nil

\* the response is a success the operation decodes: 2xx, readable, well-formed
SuccessfulResponse ==
    /\ Answered
    /\ server.status \in 200..299
    /\ server.body.readable
    /\ server.body.wellformed

\* the entities the body of the response decodes into
Decoded == IF call.kind = "get" THEN <<server.body.item>> ELSE server.body.list

\* the entities in the result the operation returned
Returned ==
    IF call.kind = "get" THEN <<outcome.val[1]>>
    ELSE IF call.entity = "application" THEN outcome.val[1].Applications
         ELSE outcome.val[1].Data

\* the entity breaks an invariant of its type (of the types without a
\* validator of their own, the one they all share: the id is required)
Invalid(entity, e) ==
    IF entity = "application" THEN Application_Validate(e) # Nil ELSE e.ID = <<>>

InvalidDecoded == {i \in DOMAIN Decoded : Invalid(call.entity, Decoded[i])}

ValidationLogs ==
    {i \in DOMAIN logs : logs[i] = LogRecord("WARN", "Application validation failed")}

\* C8: when a successful response decodes into an entity that breaks its
\* invariants, list and get still return every decoded entity, that one
\* included, with a nil error.
C8_InvalidEntityIsStillReturned ==
    (pc = "done" /\ call.layer = "service" /\ call.kind \in {"list", "get"}
        /\ SuccessfulResponse /\ InvalidDecoded # {}) =>
        /\ outcome.err = Nil
        /\ ~outcome.panic
        /\ Returned = Decoded

\* C8 witness: the validating ListApplications decoded an application that
\* fails Validate, logged it and returned it.
C8_Witness ==
    /\ pc = "done"
    /\ call.op = "Client.ListApplications/v1"
    /\ SuccessfulResponse
    /\ InvalidDecoded # {}
    /\ ValidationLogs # {}
    /\ outcome.err = Nil

\* C9: every entity service validates each entity it decodes from a
\* successful response and logs each validation failure.
C9_EveryDecodedEntityValidatedAndLogged ==
    (pc = "done" /\ call.layer = "service" /\ SuccessfulResponse /\ outcome.err = Nil) =>
        Cardinality(ValidationLogs) = Cardinality(InvalidDecoded)

\* a tool call with a required string argument that is missing or not a string
BadRequiredArgument(c) ==
    /\ c.layer = "handler"
    /\ RequiredKeys(c) # {}
    /\ ~RequiredArgsAreStrings(c)

\* the error says what is wrong with the arguments
DescribesArgumentError(c, err) ==
    IF c.args = NilPtr THEN err[1].msg = "missing arguments"
    ELSE \E k \in RequiredKeys(c) :
            /\ c.args[1][k].type # "string"
            /\ err[1].msg = k \o " argument is required and must be a string"

\* C10: a tool handler whose required string argument is missing or is not a
\* string returns an error that says so, without calling an operation of the
\* API client and without any HTTP request.
C10_BadArgumentRejectedBeforeService ==
    (pc = "done" /\ BadRequiredArgument(call)) =>
        /\ outcome.err # Nil
        /\ outcome.val = NilPtr
        /\ DescribesArgumentError(call, outcome.err)
        /\ svc = <<>>
        /\ wire = <<>>

\* C10 witness: get_release was called with app_id a string and release_id a
\* number, and was rejected.
C10_Witness ==
    /\ pc = "done"
    /\ call.op = "get_release"
    /\ call.args # NilPtr
    /\ call.args[1]["app_id"].type = "string"
    /\ call.args[1]["release_id"].type = "number"
    /\ outcome.err # Nil
    /\ svc = <<>>

\* C11: if the caller's context ends while the request is in flight, the
\* operation returns an error and no result, even when the response that
\* would have arrived is a success.
C11_ContextEndGivesErrorAndNoResult ==
    (pc = "done" /\ wire # <<>> /\ server.kind = "context_done") =>
        /\ outcome.err # Nil
        /\ outcome.val = NilPtr
        /\ ~outcome.panic

\* C11 witness: the context ended during the request of a ReleaseService.List
\* that would have been answered 200 with a well-formed, non-empty list.
C11_Witness ==
    /\ pc = "done"
    /\ call.op = "ReleaseService.List"
    /\ server.kind = "context_done"
    /\ server.status = 200
    /\ server.body.readable
    /\ server.body.wellformed
    /\ server.body.list # <<>>
    /\ Len(wire) = 1
    /\ outcome.err # Nil
    /\ outcome.val = NilPtr

-----------------------------------------------------------------------------
(* SpecConcurrent: the MCP library serves tool calls on goroutines of their *)
(* own; a handler starts, its request is answered later, and other handlers *)
(* start and end in between.                                                *)

\* the tools defineTools registers, with the entity and the kind of each
ToolTable ==
    [list_applications |-> [entity |-> "application", kind |-> "list"],
     get_application |-> [entity |-> "application", kind |-> "get"],
     search_applications |-> [entity |-> "application", kind |-> "search"],
     list_releases |-> [entity |-> "release", kind |-> "list"],
     get_release |-> [entity |-> "release", kind |-> "get"],
     search_releases |-> [entity |-> "release", kind |-> "search"],
     list_channels |-> [entity |-> "channel", kind |-> "list"],
     get_channel |-> [entity |-> "channel", kind |-> "get"],
     search_channels |-> [entity |-> "channel", kind |-> "search"],
     list_customers |-> [entity |-> "customer", kind |-> "list"],
     get_customer |-> [entity |-> "customer", kind |-> "get"],
     search_customers |-> [entity |-> "customer", kind |-> "search"]]

Tools == DOMAIN ToolTable

\* the handler registered for the tool, applied to a call
HandleTool(tool, args, srv) ==
    CASE tool = "list_applications" -> handleListApplications(args, srv)
      [] tool = "get_application" -> handleGetApplication(args, srv)
      [] tool = "search_applications" -> handleSearchApplications(args, srv)
      [] tool = "list_releases" -> handleListReleases(args, srv)
      [] tool = "get_release" -> handleGetRelease(args, srv)
      [] tool = "search_releases" -> handleSearchReleases(args, srv)
      [] tool = "list_channels" -> handleListChannels(args, srv)
      [] tool = "get_channel" -> handleGetChannel(args, srv)
      [] tool = "search_channels" -> handleSearchChannels(args, srv)
      [] tool = "list_customers" -> handleListCustomers(args, srv)
      [] tool = "get_customer" -> handleGetCustomer(args, srv)
      [] tool = "search_customers" -> handleSearchCustomers(args, srv)

\* an argument map that gives every identifier the value id and has a query
ArgsWithID(id) ==
    Ptr([k \in ArgKeys |->
            IF k \in {"app_id", "release_id", "channel_id", "customer_id"} THEN StringValue(id)
            ELSE IF k = "query" THEN StringValue(<<"W">>)
            ELSE Missing])

\* the argument maps of the concurrent calls
ConcurrentArgs == {NilPtr, ArgsWithID(<<"a">>), ArgsWithID(<<>>)}

\* the answers to the request of a concurrent call
ConcurrentAnswers(tool) ==
    LET bodies == IF ToolTable[tool].kind = "get"
                  THEN ItemBodies(ToolTable[tool].entity)
                  ELSE ListBodies(ToolTable[tool].entity)
    IN  {srv \in Servers(bodies) :
            \/ srv.kind = "transport_error"
            \/ /\ srv.kind = "response"
               /\ srv.status = 200
               /\ srv.body.wellformed
               /\ Len(srv.body.list) <= 1}

\* handlers that keep their variables in one place all goroutines share (the
\* frame of the first goroutine that is serving a call)
Frame_Shared(frames, g) ==
    IF \E h \in Goroutines : frames[h].pc # "idle"
    THEN frames[CHOOSE h \in Goroutines : frames[h].pc # "idle"]
    ELSE frames[g]

\* a handler's variables (request, args, limit, ...) are locals: they live in
\* the frame of the goroutine that runs it
Frame(frames, g) == frames[g]

InitConcurrent == Init

ServiceAndValidateUnchanged ==
    UNCHANGED <<ent, verr, vpc, call, server, wire, outcome, logs, svc, pc,
                proc, stdout, stderr>>

\* the library starts a handler on goroutine g
BeginToolCall(g) ==
    /\ running[g].pc = "idle"
    /\ \E tool \in Tools :
       \E args \in ConcurrentArgs :
           running' = [running EXCEPT ![g] =
                          [IdleFrame EXCEPT !.pc = "running", !.tool = tool, !.args = args]]
    /\ UNCHANGED shared
    /\ ServiceAndValidateUnchanged

\* the handler on goroutine g runs to its end, its request (if it sends one)
\* answered by srv; it assigns to no field of Server or Client
FinishToolCall(g) ==
    /\ running[g].pc = "running"
    /\ \E srv \in ConcurrentAnswers(running[g].tool) :
           LET r == HandleTool(Frame(running, g).tool, Frame(running, g).args, srv)
           IN  running' = [running EXCEPT ![g].pc = "done", ![g].srv = srv,
                              ![g].result = [val |-> r.val, err |-> r.err, panic |-> r.panic]]
    /\ UNCHANGED shared
    /\ ServiceAndValidateUnchanged

\* the library has sent the result; the goroutine ends
EndToolCall(g) ==
    /\ running[g].pc = "done"
    /\ running' = [running EXCEPT ![g] = IdleFrame]
    /\ UNCHANGED shared
    /\ ServiceAndValidateUnchanged

NextConcurrent ==
    \E g \in Goroutines :
        \/ BeginToolCall(g)
        \/ FinishToolCall(g)
        \/ EndToolCall(g)

SpecConcurrent == InitConcurrent /\ [][NextConcurrent]_vars

\* what the call on goroutine g returns when it runs alone
Alone(g) ==
    LET r == HandleTool(running[g].tool, running[g].args, running[g].srv)
    IN  [val |-> r.val, err |-> r.err, panic |-> r.panic]

-----------------------------------------------------------------------------
(* Search of releases, channels and customers *)

\* the path segment of the List endpoint of an entity of an application
ListSegment(entity) ==
    CASE entity = "release" -> "/releases"
      [] entity = "channel" -> "/channels"
      [] entity = "customer" -> "/customers"

\* req is a List request for the entity with page size 100: its path ends the
\* application's part with the List segment, asks for limit=100 and carries no
\* search parameter
IsListRequestOf100(req, entity) ==
    /\ \E i \in 1..Len(req.path) : req.path[i] = ListSegment(entity)
    /\ \E i \in 1..(Len(req.path) - 1) : req.path[i] = "limit=" /\ req.path[i + 1] = "100"
    /\ \A i \in 1..Len(req.path) : req.path[i] # "q="

\* a search for releases, channels or customers that sent a request
SearchSentRequest ==
    /\ pc = "done"
    /\ call.kind = "search"
    /\ call.entity \in {"release", "channel", "customer"}
    /\ wire # <<>>

\* C13: every request of a search for releases, channels or customers is a List
\* request for the application with limit 100; no search endpoint is called.
C13_SearchCallsListWithLimit100 ==
    SearchSentRequest =>
        \A i \in 1..Len(wire) : IsListRequestOf100(wire[i], call.entity)

\* C13, channels and customers only: their searches call List with limit 100.
C13_ChannelAndCustomerSearchCallList ==
    (SearchSentRequest /\ call.entity # "release") =>
        \A i \in 1..Len(wire) : IsListRequestOf100(wire[i], call.entity)

\* C13 for releases: a search that called the releases search endpoint.
C13_ReleaseSearchEndpointCalled ==
    /\ SearchSentRequest
    /\ call.op = "ReleaseService.Search"
    /\ \E i \in 1..Len(wire[1].path) : wire[1].path[i] = "/releases/search"

-----------------------------------------------------------------------------
(* The size of search results *)

\* the limit argument of the finished tool call, 10 when none is given
LimitArgument == ArgInt(call.args, "limit", DefaultLimit)

\* the items in the document a tool returned
ResultItems ==
    LET doc == outcome.val[1].Content[1].Text.json
    IN  IF call.entity = "application" THEN doc.Applications ELSE doc.Data

\* a search tool returned a result for a call whose limit is at least 1, the
\* minimum the tool's schema declares
SearchToolSucceeded ==
    /\ pc = "done"
    /\ call.layer = "handler"
    /\ call.kind = "search"
    /\ ~outcome.panic
    /\ outcome.err = Nil
    /\ LimitArgument >= 1

\* C14: a search tool never returns more items than the limit of the call.
C14_SearchResultWithinLimit ==
    SearchToolSucceeded => Len(ResultItems) <= LimitArgument

\* C14 for channels and customers: their search tools cut the result at limit.
C14_ChannelAndCustomerSearchWithinLimit ==
    (SearchToolSucceeded /\ call.entity \in {"channel", "customer"}) =>
        Len(ResultItems) <= LimitArgument

\* C14: a channel search with limit 1 found two matching channels and
\* returned one.
C14_ChannelSearchCut ==
    /\ SearchToolSucceeded
    /\ call.op = "search_channels"
    /\ LimitArgument = 1
    /\ Len(server.body.list) = 2
    /\ Len(ResultItems) = 1

-----------------------------------------------------------------------------
(* Pagination of list_applications *)

\* the offset argument of the finished tool call, 0 when none is given
OffsetArgument ==
    IF call.args = NilPtr THEN 0 ELSE ArgInt(call.args, "offset", 0)

\* the limit argument of the finished list_applications call; its argument
\* map may be nil
ListLimitArgument ==
    IF call.args = NilPtr THEN DefaultLimit ELSE ArgInt(call.args, "limit", DefaultLimit)

\* the items of list at the positions lo .. hi, counted from 0, that exist
Positions(list, lo, hi) ==
    LET last == IF hi < Len(list) - 1 THEN hi ELSE Len(list) - 1
        n == IF last >= lo THEN last - lo + 1 ELSE 0
    IN  [i \in 1..n |-> list[lo + i]]

\* list_applications returned a result for a call with limit >= 1, offset >= 0
ListApplicationsSucceeded ==
    /\ pc = "done"
    /\ call.op = "list_applications"
    /\ ~outcome.panic
    /\ outcome.err = Nil
    /\ ListLimitArgument >= 1
    /\ OffsetArgument >= 0

\* C15: list_applications with limit L >= 1 and offset O >= 0 returns the
\* applications at the positions O .. O+L-1 of the list the API returned, in
\* their order: fewer when the list ends first, none when O is past its end.
C15_ListApplicationsReturnsPage ==
    /\ ListApplicationsSucceeded =>
           ResultItems = Positions(server.body.list, OffsetArgument,
                                   OffsetArgument + ListLimitArgument - 1)
    /\ (pc = "done" /\ call.op = "list_applications"
            /\ ListLimitArgument >= 1 /\ OffsetArgument >= 0) => ~outcome.panic

\* C15 witness: limit 1 and offset 1 on a list of two different applications
\* returned the second one alone.
C15_Witness ==
    /\ ListApplicationsSucceeded
    /\ ListLimitArgument = 1
    /\ OffsetArgument = 1
    /\ Len(server.body.list) = 2
    /\ server.body.list[1] # server.body.list[2]
    /\ ResultItems = <<server.body.list[2]>>

-----------------------------------------------------------------------------
(* The shape of a tool's answer *)

\* what the API client answers to the service operation of the finished tool
\* call, given the arguments of the call
ServiceResult ==
    LET a == call.args[1]
    IN  CASE call.op = "list_applications" ->
                Client_ListApplications(ListLimitArgument, OffsetArgument, server)
          [] call.op = "get_application" -> Client_GetApplication(a["app_id"].s, server)
          [] call.op = "search_applications" ->
                Client_SearchApplications(a["query"].s, LimitArgument, 0, server)
          [] call.op = "list_releases" ->
                Client_ListReleases(a["app_id"].s, LimitArgument, OffsetArgument, server)
          [] call.op = "get_release" ->
                Client_GetRelease(a["app_id"].s, a["release_id"].s, server)
          [] call.op = "search_releases" ->
                Client_SearchReleases(a["app_id"].s, a["query"].s, LimitArgument, 0, server)
          [] call.op = "list_channels" ->
                Client_ListChannels(a["app_id"].s, LimitArgument, OffsetArgument, server)
          [] call.op = "get_channel" ->
                Client_GetChannel(a["app_id"].s, a["channel_id"].s, server)
          [] call.op = "search_channels" ->
                Client_SearchChannels(a["app_id"].s, a["query"].s, LimitArgument, 0, server)
          [] call.op = "list_customers" ->
                Client_ListCustomers(a["app_id"].s, LimitArgument, OffsetArgument, server)
          [] call.op = "get_customer" ->
                Client_GetCustomer(a["app_id"].s, a["customer_id"].s, server)
          [] call.op = "search_customers" ->
                Client_SearchCustomers(a["app_id"].s, a["query"].s, LimitArgument, 0, server)

\* a tool handler returned
HandlerReturned ==
    /\ pc = "done"
    /\ call.layer = "handler"
    /\ ~outcome.panic

\* the arguments were accepted and the service operation gave a result
ToolSucceeded ==
    /\ HandlerReturned
    /\ ~BadRequiredArgument(call)
    /\ ServiceResult.err = Nil

C16_FailureReached ==
    /\ HandlerReturned
    /\ call.op = "list_channels"
    /\ ~BadRequiredArgument(call)
    /\ server.kind = "response"
    /\ server.status = 500
    /\ outcome.err # Nil
    /\ outcome.val = NilPtr

-----------------------------------------------------------------------------
(* Determinism of Validate *)

\* the results the calls of Validate on the value of ent can return
ValidateResults ==
    CASE ent.kind = "application" -> {Application_Validate(ent.val)}
      [] ent.kind = "release" ->
            {Release_Validate(ent.val, order) : order \in Orders(ent.val.Metadata)}
      [] ent.kind = "channel" -> {Channel_Validate(ent.val)}
      [] ent.kind = "customer" ->
            {Customer_Validate(ent.val, entOrder, cfOrder) :
                entOrder \in Orders(ent.val.Entitlements),
                cfOrder \in Orders(ent.val.CustomFields)}

\* the messages of a validation error, without their order
Messages(err) == {err[i] : i \in 1..Len(err)}

\* C17: a second call of Validate on an equal value returns what the first
\* call returned: nil, or an error with the same text.
C17_ValidateDeterministic ==
    vpc = "done" => \A second \in ValidateResults : second = verr

\* C17 without the order of the messages: a second call returns nil exactly
\* when the first did, and an error with the same set of messages.
C17_SameVerdictAndMessages ==
    vpc = "done" =>
        \A second \in ValidateResults :
            /\ (second = Nil) <=> (verr = Nil)
            /\ Messages(second) = Messages(verr)

\* C17: Validate returned an error for a release whose metadata has two
\* offending entries, and a second call can return another text.
C17_TwoTextsReached ==
    /\ vpc = "done"
    /\ ent.kind = "release"
    /\ Cardinality(DOMAIN ent.val.Metadata) = 2
    /\ \E second \in ValidateResults : second # verr

-----------------------------------------------------------------------------
(* pkg/config.  A string is a tuple of characters; an endpoint is the tuple *)
(* of the parts of its URL, <<scheme, "://", host>> when it has both.  A    *)
(* timeout is a number of seconds.  A flag is [changed, value]: whether it  *)
(* was given on the command line, and its value (its default when not).    *)
(* An environment variable that is not set reads as the empty string, as   *)
(* os.Getenv returns it.                                                    *)

DefaultLogLevel == <<"f", "a", "t", "a", "l">>

DefaultTimeout == 30

MinTimeout == 1

MaxTimeout == 300

ValidLogLevels ==
    << <<"f", "a", "t", "a", "l">>, <<"e", "r", "r", "o", "r">>, <<"i", "n", "f", "o">>,
       <<"d", "e", "b", "u", "g">>, <<"t", "r", "a", "c", "e">> >>

\* the value of a decimal digit
DigitValue ==
    [ch \in {"0", "1", "2", "3", "4", "5", "6", "7", "8", "9"} |->
        CASE ch = "0" -> 0 [] ch = "1" -> 1 [] ch = "2" -> 2 [] ch = "3" -> 3
          [] ch = "4" -> 4 [] ch = "5" -> 5 [] ch = "6" -> 6 [] ch = "7" -> 7
          [] ch = "8" -> 8 [] ch = "9" -> 9]

\* the number a string of digits denotes
RECURSIVE DigitsValue(_)
DigitsValue(digits) ==
    IF digits = <<>> THEN 0
    ELSE DigitsValue(SubSeq(digits, 1, Len(digits) - 1)) * 10 + DigitValue[digits[Len(digits)]]

\* strconv.Atoi: an optional sign and at least one digit, nothing else
Atoi(str) ==
    LET signed == str # <<>> /\ str[1] \in {"-", "+"}
        digits == IF signed THEN Tail(str) ELSE str
    IN  IF digits = <<>> \/ \E i \in 1..Len(digits) : digits[i] \notin DOMAIN DigitValue
        THEN [ok |-> FALSE, n |-> 0]
        ELSE [ok |-> TRUE,
              n |-> IF signed /\ str[1] = "-" THEN -DigitsValue(digits) ELSE DigitsValue(digits)]

\* &Config{}
ZeroConfig == [APIToken |-> <<>>, LogLevel |-> <<>>, Timeout |-> 0, Endpoint |-> <<>>]

\* Config.loadFromEnv: [cfg, err]
Config_loadFromEnv(c, env) ==
    LET c1 == IF env.REPLICATED_API_TOKEN # <<>>
              THEN [c EXCEPT !.APIToken = env.REPLICATED_API_TOKEN] ELSE c
        c2 == [c1 EXCEPT !.LogLevel = IF env.LOG_LEVEL # <<>> THEN env.LOG_LEVEL
                                      ELSE DefaultLogLevel]
        timeout == Atoi(env.TIMEOUT)
        c3 == [c2 EXCEPT !.Timeout = IF env.TIMEOUT # <<>> THEN timeout.n ELSE DefaultTimeout]
        c4 == IF env.ENDPOINT # <<>> THEN [c3 EXCEPT !.Endpoint = env.ENDPOINT] ELSE c3
    IN  IF env.TIMEOUT # <<>> /\ ~timeout.ok
        THEN [cfg |-> c2, err |-> NewError("invalid TIMEOUT environment variable")]
        ELSE [cfg |-> c4, err |-> Nil]

\* Config.loadFromFlags: the flags are defined with the types it reads, so
\* GetString and GetInt do not fail
Config_loadFromFlags(c, flags) ==
    LET c1 == IF flags.token.changed THEN [c EXCEPT !.APIToken = flags.token.value] ELSE c
        c2 == IF flags.level.changed THEN [c1 EXCEPT !.LogLevel = flags.level.value] ELSE c1
        c3 == IF flags.timeout.changed THEN [c2 EXCEPT !.Timeout = flags.timeout.value] ELSE c2
        c4 == IF flags.endpoint.changed THEN [c3 EXCEPT !.Endpoint = flags.endpoint.value] ELSE c3
    IN  c4

\* isValidLogLevel
isValidLogLevel(level) ==
    \E i \in 1..Len(ValidLogLevels) : ToLower(level) = ValidLogLevels[i]

\* u.Scheme and u.Host of url.Parse(endpoint)
URLScheme(endpoint) ==
    IF Len(endpoint) >= 2 /\ endpoint[2] = "://" THEN endpoint[1] ELSE ""

URLHost(endpoint) ==
    IF Len(endpoint) >= 3 /\ endpoint[2] = "://" THEN endpoint[3] ELSE ""

\* Config.Validate
Config_Validate(c) ==
    LET e1 == IF c.APIToken = <<>> THEN NewError("API token is required") ELSE <<>>
        e2 == IF ~isValidLogLevel(c.LogLevel) THEN NewError("invalid log level") ELSE <<>>
        e3 == IF c.Timeout < MinTimeout \/ c.Timeout > MaxTimeout
              THEN NewError("timeout must be between 1 and 300 seconds") ELSE <<>>
        e4 == IF c.Endpoint # <<>> /\ (URLScheme(c.Endpoint) = "" \/ URLHost(c.Endpoint) = "")
              THEN NewError("invalid endpoint URL: must include scheme and host") ELSE <<>>
        errors == e1 \o e2 \o e3 \o e4
    IN  IF Len(errors) > 0 THEN Wrap("configuration validation errors", errors) ELSE Nil

\* Load: [cfg, err]
Load(flags, env) ==
    LET fromEnv == Config_loadFromEnv(ZeroConfig, env)
        config == Config_loadFromFlags(fromEnv.cfg, flags)
        invalid == Config_Validate(config)
    IN  IF fromEnv.err # Nil
        THEN [cfg |-> NilPtr,
              err |-> Wrap("failed to load configuration from environment", fromEnv.err)]
        ELSE IF invalid # Nil
             THEN [cfg |-> NilPtr, err |-> Wrap("configuration validation failed", invalid)]
             ELSE [cfg |-> Ptr(config), err |-> Nil]

\* a flag that was not given, with its default, and a flag that was given
NotGiven(default) == [changed |-> FALSE, value |-> default]

Given(value) == [changed |-> TRUE, value |-> value]

\* the command lines: each flag absent or given, with good and bad values
SampleFlags ==
    [token : {NotGiven(<<>>), Given(<<"f">>)},
     level : {NotGiven(DefaultLogLevel), Given(<<"d", "e", "b", "u", "g">>),
              Given(<<"l", "o", "u", "d">>)},
     timeout : {NotGiven(DefaultTimeout), Given(60), Given(0)},
     endpoint : {NotGiven(<<>>), Given(<<"https", "://", "f.example.com">>)}]

\* the environments: each variable unset, or set to a good or a bad value
SampleEnvs ==
    [REPLICATED_API_TOKEN : {<<>>, <<"e">>},
     LOG_LEVEL : {<<>>, <<"i", "n", "f", "o">>, <<"T", "R", "A", "C", "E">>},
     TIMEOUT : {<<>>, <<"4", "5">>, <<"a", "b", "c">>},
     ENDPOINT : {<<>>, <<"https", "://", "e.example.com">>, <<"not-a-url">>}]

-----------------------------------------------------------------------------
(* pkg/config: Config.String.  The text is a sequence of characters (the    *)
(* parts of an endpoint are kept whole, as elsewhere).                      *)

\* strconv.Itoa of a natural number, digit by digit
RECURSIVE Itoa(_)
Itoa(n) ==
    IF n < 10 THEN <<ToString(n)>> ELSE Itoa(n \div 10) \o <<ToString(n % 10)>>

\* time.Duration.String of a whole number of seconds
DurationString(seconds) ==
    LET h == seconds \div 3600
        m == (seconds % 3600) \div 60
        sec == seconds % 60
    IN  IF h > 0 THEN Itoa(h) \o <<"h">> \o Itoa(m) \o <<"m">> \o Itoa(sec) \o <<"s">>
        ELSE IF m > 0 THEN Itoa(m) \o <<"m">> \o Itoa(sec) \o <<"s">>
        ELSE Itoa(sec) \o <<"s">>

\* a Config.String that prints the token itself
Config_String_PrintsToken(c) ==
    LET endpoint == IF c.Endpoint = <<>> THEN <<"(", "d", "e", "f", "a", "u", "l", "t", ")">> ELSE c.Endpoint
    IN  <<"C", "o", "n", "f", "i", "g", "{", "A", "P", "I", "T", "o", "k", "e", "n", ":", " ">>
        \o c.APIToken
        \o <<",", " ", "L", "o", "g", "L", "e", "v", "e", "l", ":", " ">> \o c.LogLevel
        \o <<",", " ", "T", "i", "m", "e", "o", "u", "t", ":", " ">> \o DurationString(c.Timeout)
        \o <<",", " ", "E", "n", "d", "p", "o", "i", "n", "t", ":", " ">> \o endpoint \o <<"}">>

\* Config.String
Config_String(c) ==
    LET endpoint == IF c.Endpoint = <<>> THEN <<"(", "d", "e", "f", "a", "u", "l", "t", ")">> ELSE c.Endpoint
        token == IF c.APIToken # <<>> THEN <<"(", "s", "e", "t", ")">> ELSE <<"(", "n", "o", "t", " ", "s", "e", "t", ")">>
    IN  <<"C", "o", "n", "f", "i", "g", "{", "A", "P", "I", "T", "o", "k", "e", "n", ":", " ">>
        \o token
        \o <<",", " ", "L", "o", "g", "L", "e", "v", "e", "l", ":", " ">> \o c.LogLevel
        \o <<",", " ", "T", "i", "m", "e", "o", "u", "t", ":", " ">> \o DurationString(c.Timeout)
        \o <<",", " ", "E", "n", "d", "p", "o", "i", "n", "t", ":", " ">> \o endpoint \o <<"}">>

-----------------------------------------------------------------------------
(* pkg/logging.  A logger is [writer, level]: the stream its handler writes *)
(* to and the lowest level it writes.                                       *)

LevelTrace == -8

LevelFatal == 12

\* the slog.Level of the level names of a record
SlogLevels ==
    [TRACE |-> LevelTrace, DEBUG |-> -4, INFO |-> 0, WARN |-> 4, ERROR |-> 8,
     FATAL |-> LevelFatal]

\* parseLogLevel
parseLogLevel(level) ==
    LET l == ToLower(level)
    IN  CASE l = <<"t", "r", "a", "c", "e">> -> LevelTrace
          [] l = <<"d", "e", "b", "u", "g">> -> SlogLevels.DEBUG
          [] l = <<"i", "n", "f", "o">> -> SlogLevels.INFO
          [] l = <<"e", "r", "r", "o", "r">> -> SlogLevels.ERROR
          [] l = <<"f", "a", "t", "a", "l">> -> LevelFatal
          [] OTHER -> LevelFatal

\* NewLoggerWithWriter
NewLoggerWithWriter(level, writer) == [writer |-> writer, level |-> parseLogLevel(level)]

\* a NewLogger whose handler writes to standard output
NewLogger_Stdout(level) == NewLoggerWithWriter(level, "stdout")

\* NewLogger
NewLogger(level) == NewLoggerWithWriter(level, "stderr")

\* what slogLogger.Info, Debug and Error write to the stream for the records
\* recs, in order: the records at or above the logger's level, as log lines
Written(logger, stream, recs) ==
    LET Enabled(r) == SlogLevels[r.level] >= logger.level
        Line(r) == [kind |-> "log", level |-> r.level, msg |-> r.msg]
        lines == SelectSeq(recs, Enabled)
    IN  IF logger.writer = stream THEN [i \in 1..Len(lines) |-> Line(lines[i])] ELSE <<>>

\* fmt.Fprintf(os.Stderr, "Error: %v\n", err) in main
ErrorLine == [kind |-> "text", level |-> "", msg |-> "Error"]

\* a JSON-RPC message the stdio transport writes to standard output
Payload(what) == [kind |-> "payload", level |-> "", msg |-> what]

-----------------------------------------------------------------------------
(* SpecProcess: the server process.  main loads the configuration, makes    *)
(* the logger and the server, and serves tool calls over stdio until the   *)
(* transport ends.                                                          *)

\* the number of tool calls a run serves
MaxCalls == 2

\* the tool calls of a run
ProcessCalls ==
    {[tool |-> "list_applications", args |-> NilPtr],
     [tool |-> "get_release", args |-> ArgsWithID(<<>>)],
     [tool |-> "list_channels", args |-> ArgsWithID(<<"a">>)]}

\* the answers to the request of a tool call of a run
ProcessAnswers(tool) ==
    {srv \in ConcurrentAnswers(tool) : srv.kind = "transport_error" \/ srv.body.list = <<>>}

InitProcess ==
    /\ ent = NoEntity
    /\ verr = Nil
    /\ vpc = "unused"
    /\ call = IdleCall
    /\ server = IdleServer
    /\ wire = <<>>
    /\ outcome = NoOutcome
    /\ logs = <<>>
    /\ svc = <<>>
    /\ pc = "idle"
    /\ running = [g \in Goroutines |-> IdleFrame]
    /\ shared = ServerFields
    /\ \E flags \in SampleFlags :
       \E env \in SampleEnvs :
           proc = [IdleProcess EXCEPT !.pc = "start", !.flags = flags, !.env = env]
    /\ stdout = <<>>
    /\ stderr = <<>>

ProcessOnly ==
    UNCHANGED <<ent, verr, vpc, call, server, wire, outcome, logs, svc, pc, running, shared>>

\* runServer: config.Load(cmd)
LoadConfig ==
    /\ proc.pc = "start"
    /\ LET r == Load(proc.flags, proc.env)
       IN  proc' = [proc EXCEPT !.pc = IF r.err = Nil THEN "loaded" ELSE "failed",
                                !.cfg = r.cfg, !.err = r.err]
    /\ UNCHANGED <<stdout, stderr>>
    /\ ProcessOnly

\* main: runServer returned an error before the server ran
ExitWithError ==
    /\ proc.pc = "failed"
    /\ proc' = [proc EXCEPT !.pc = "exited", !.returned = "error"]
    /\ stderr' = Append(stderr, ErrorLine)
    /\ UNCHANGED stdout
    /\ ProcessOnly

\* runServer up to the call of ServeStdio: NewLogger, NewServer (with
\* registerTools and registerResources), Server.Start
StartServer ==
    /\ proc.pc = "loaded"
    /\ LET logger == NewLogger(proc.cfg[1].LogLevel)
           recs == <<LogRecord("INFO", "Replicated MCP Server starting"),
                     LogRecord("INFO", "Initializing MCP server"),
                     LogRecord("DEBUG", "Registering MCP tools")>>
                   \o [i \in 1..Cardinality(Tools) |-> LogRecord("DEBUG", "Registered tool")]
                   \o <<LogRecord("INFO", "Successfully registered tools"),
                        LogRecord("DEBUG", "Registering MCP resources"),
                        LogRecord("INFO", "Successfully registered resources"),
                        LogRecord("INFO", "MCP server initialized successfully"),
                        LogRecord("INFO", "Starting MCP server - ready for AI agent connections"),
                        LogRecord("INFO", "Starting MCP server on stdio transport")>>
       IN  /\ proc' = [proc EXCEPT !.pc = "serving", !.logger = logger]
           /\ stdout' = stdout \o Written(logger, "stdout", recs)
           /\ stderr' = stderr \o Written(logger, "stderr", recs)
    /\ ProcessOnly

\* the transport read a tools/call request, ran its handler, and wrote the
\* response; the handler and the API client logged on the way
ServeToolCall ==
    /\ proc.pc = "serving"
    /\ proc.served < MaxCalls
    /\ \E c \in ProcessCalls :
       \E srv \in ProcessAnswers(c.tool) :
           LET r == HandleTool(c.tool, c.args, srv)
           IN  /\ stdout' = (stdout \o Written(proc.logger, "stdout", r.logs))
                               \o <<Payload(IF r.err = Nil THEN "result" ELSE "error")>>
               /\ stderr' = stderr \o Written(proc.logger, "stderr", r.logs)
    /\ proc' = [proc EXCEPT !.served = @ + 1]
    /\ ProcessOnly

\* SIGINT or SIGTERM arrived: the goroutine of runServer logs it and cancels
\* the context, which Server.Start does not look at; the server goes on
SignalReceived ==
    /\ proc.pc = "serving"
    /\ ~proc.signalled
    /\ LET recs == <<LogRecord("INFO", "Received shutdown signal")>>
       IN  /\ stdout' = stdout \o Written(proc.logger, "stdout", recs)
           /\ stderr' = stderr \o Written(proc.logger, "stderr", recs)
    /\ proc' = [proc EXCEPT !.signalled = TRUE]
    /\ ProcessOnly

\* ServeStdio returned nil (its input ended): runServer logs and returns
Shutdown ==
    /\ proc.pc = "serving"
    /\ LET recs == <<LogRecord("INFO", "Server shutdown complete")>>
       IN  /\ stdout' = stdout \o Written(proc.logger, "stdout", recs)
           /\ stderr' = stderr \o Written(proc.logger, "stderr", recs)
    /\ proc' = [proc EXCEPT !.pc = "exited", !.returned = "nil"]
    /\ ProcessOnly

\* ServeStdio returned an error: Start logs it, runServer returns it, main
\* prints it
ServeFails ==
    /\ proc.pc = "serving"
    /\ LET recs == <<LogRecord("ERROR", "MCP server error")>>
       IN  /\ stdout' = stdout \o Written(proc.logger, "stdout", recs)
           /\ stderr' = (stderr \o Written(proc.logger, "stderr", recs)) \o <<ErrorLine>>
    /\ proc' = [proc EXCEPT !.pc = "exited", !.returned = "error"]
    /\ ProcessOnly

NextProcess ==
    \/ LoadConfig
    \/ ExitWithError
    \/ StartServer
    \/ ServeToolCall
    \/ SignalReceived
    \/ Shutdown
    \/ ServeFails

SpecProcess == InitProcess /\ [][NextProcess]_vars

\* the lines of a stream that are log records
LogLines(stream) ==
    LET IsLog(line) == line.kind = "log"
    IN  SelectSeq(stream, IsLog)

\* C18: no log record is on standard output, which carries protocol payloads
\* only; the log records are on standard error.
C18_LogsOnStderrOnly ==
    /\ LogLines(stdout) = <<>>
    /\ \A i \in 1..Len(stdout) : stdout[i].kind = "payload"
    /\ \A i \in 1..Len(stderr) : stderr[i].kind \in {"log", "text"}
    /\ (proc.pc = "serving" /\ proc.logger.level <= SlogLevels.INFO) => LogLines(stderr) # <<>>

\* C18 witness: a server logging at debug level served a tool call that sent
\* a request; the payload is on standard output, the records of the handler
\* and of the API client are on standard error.
C18_Witness ==
    /\ proc.pc = "serving"
    /\ proc.logger.level = SlogLevels.DEBUG
    /\ Len(stdout) = 1
    /\ stdout[1] = Payload("result")
    /\ \E i \in 1..Len(stderr) : stderr[i].msg = "list_applications tool called"
    /\ \E i \in 1..Len(stderr) : stderr[i].msg = "Making API request"

-----------------------------------------------------------------------------
(* Precedence of flags, environment and defaults *)

Settings == {"token", "level", "timeout", "endpoint"}

\* the text of the environment variable of a setting
EnvOf(env, s) ==
    CASE s = "token" -> env.REPLICATED_API_TOKEN
      [] s = "level" -> env.LOG_LEVEL
      [] s = "timeout" -> env.TIMEOUT
      [] s = "endpoint" -> env.ENDPOINT

\* the environment with the variable of a setting unset
WithoutEnv(env, s) ==
    CASE s = "token" -> [env EXCEPT !.REPLICATED_API_TOKEN = <<>>]
      [] s = "level" -> [env EXCEPT !.LOG_LEVEL = <<>>]
      [] s = "timeout" -> [env EXCEPT !.TIMEOUT = <<>>]
      [] s = "endpoint" -> [env EXCEPT !.ENDPOINT = <<>>]

\* the value a configuration holds for a setting
Held(c, s) ==
    CASE s = "token" -> c.APIToken
      [] s = "level" -> c.LogLevel
      [] s = "timeout" -> c.Timeout
      [] s = "endpoint" -> c.Endpoint

\* the value the environment gives a setting: its variable if that is set,
\* else the default
FromEnvOrDefault(env, s) ==
    CASE s = "token" -> env.REPLICATED_API_TOKEN
      [] s = "level" -> IF env.LOG_LEVEL # <<>> THEN env.LOG_LEVEL ELSE DefaultLogLevel
      [] s = "timeout" -> IF env.TIMEOUT # <<>> THEN Atoi(env.TIMEOUT).n ELSE DefaultTimeout
      [] s = "endpoint" -> env.ENDPOINT

\* Load has returned: proc.cfg and proc.err hold its result
LoadReturned == proc.pc \notin {"unused", "start"}

\* C19: for each setting, a given flag decides the value whatever its
\* environment variable contains (a command line that loads with the variable
\* unset loads with it set, and holds the flag's value); without the flag the
\* configuration holds the variable's value if set, else the default.
C19_FlagThenEnvThenDefault ==
    LoadReturned =>
        \A s \in Settings :
            IF proc.flags[s].changed
            THEN Load(proc.flags, WithoutEnv(proc.env, s)).err = Nil =>
                    /\ proc.err = Nil
                    /\ Held(proc.cfg[1], s) = proc.flags[s].value
            ELSE proc.err = Nil =>
                    Held(proc.cfg[1], s) = FromEnvOrDefault(proc.env, s)

\* C19 for the configurations that load: each setting holds the flag's value
\* if the flag is given, else the variable's value if set, else the default.
C19_LoadedConfigFollowsPrecedence ==
    (LoadReturned /\ proc.err = Nil) =>
        \A s \in Settings :
            Held(proc.cfg[1], s) = IF proc.flags[s].changed THEN proc.flags[s].value
                                   ELSE FromEnvOrDefault(proc.env, s)

\* C19: Load failed on the text of TIMEOUT although --timeout was given and
\* the same command line loads when TIMEOUT is unset.
C19_OverriddenVariableFailsLoad ==
    /\ LoadReturned
    /\ proc.flags.timeout.changed
    /\ proc.env.TIMEOUT # <<>>
    /\ proc.err # Nil
    /\ Load(proc.flags, WithoutEnv(proc.env, "timeout")).err = Nil

\* C19: a configuration loaded with a flag over a set variable, a variable
\* over a default, and a default.
C19_AllThreeSourcesReached ==
    /\ LoadReturned
    /\ proc.err = Nil
    /\ proc.flags.level.changed /\ proc.env.LOG_LEVEL # <<>>
    /\ proc.cfg[1].LogLevel = proc.flags.level.value
    /\ ~proc.flags.token.changed /\ proc.cfg[1].APIToken = proc.env.REPLICATED_API_TOKEN
    /\ ~proc.flags.timeout.changed /\ proc.env.TIMEOUT = <<>>
    /\ proc.cfg[1].Timeout = DefaultTimeout

-----------------------------------------------------------------------------
(* The archived state of channels and customers *)

\* the errors about the archived state
ArchivedStateErrors ==
    {"is_archived must be true when archived_at is set",
     "archived_at is required when is_archived is true"}

\* the archived-state errors the rule asks for, the same for both entities
ArchivedStateErrorsDue(e) ==
    IF e.ArchivedAt # NilTime /\ ~e.IsArchived
    THEN {"is_archived must be true when archived_at is set"}
    ELSE IF e.IsArchived /\ e.ArchivedAt = NilTime
         THEN {"archived_at is required when is_archived is true"}
         ELSE {}

\* Validate has returned for a channel or a customer
ChannelOrCustomerValidated ==
    /\ vpc = "done"
    /\ ent.kind \in {"channel", "customer"}

\* C20: Validate of a Channel or a Customer reports an archived-state error
\* exactly when archived_at set <=> is_archived fails, and the error depends
\* only on the two fields, not on which of the two entities it is.
C20_ArchivedStateRule ==
    ChannelOrCustomerValidated =>
        /\ ArchivedStateConsistent(ent.val) <=> (Messages(verr) \cap ArchivedStateErrors = {})
        /\ Messages(verr) \cap ArchivedStateErrors = ArchivedStateErrorsDue(ent.val)

\* C20 witness: a channel with is_archived true and no archived_at got the
\* archived-state error.
C20_Witness ==
    /\ ChannelOrCustomerValidated
    /\ ent.kind = "channel"
    /\ ent.val.IsArchived
    /\ ent.val.ArchivedAt = NilTime
    /\ "archived_at is required when is_archived is true" \in Messages(verr)

\* C20 witness for customers: a customer with archived_at set and is_archived
\* false got the archived-state error.
C20_CustomerReached ==
    /\ ChannelOrCustomerValidated
    /\ ent.kind = "customer"
    /\ ~ent.val.IsArchived
    /\ ent.val.ArchivedAt # NilTime
    /\ "is_archived must be true when archived_at is set" \in Messages(verr)

\* C20 witness of the consistent archived state: archived_at set and
\* is_archived true, and no archived-state error.
C20_ArchivedReached ==
    /\ ChannelOrCustomerValidated
    /\ ent.val.IsArchived
    /\ ent.val.ArchivedAt # NilTime
    /\ Messages(verr) \cap ArchivedStateErrors = {}

-----------------------------------------------------------------------------
(* encoding/json as the models use it.  A document is the object Marshal    *)
(* writes: for each struct field, whether its key is there and the value   *)
(* under it.  A string holds bytes; InvalidByte is a byte that is not part *)
(* of any UTF-8 sequence (0xFF).                                            *)

InvalidByte == "<FF>"

\* the three bytes of U+FFFD, the replacement character
ReplacementChar == <<"<EF>", "<BF>", "<BD>">>

\* the json struct tags of the four models
Application_tags ==
    [ID |-> [key |-> "id", omitempty |-> FALSE, type |-> "string"],
     Name |-> [key |-> "name", omitempty |-> FALSE, type |-> "string"],
     Slug |-> [key |-> "slug", omitempty |-> FALSE, type |-> "string"],
     TeamID |-> [key |-> "team_id", omitempty |-> FALSE, type |-> "string"],
     TeamName |-> [key |-> "team_name", omitempty |-> TRUE, type |-> "string"],
     CreatedAt |-> [key |-> "created_at", omitempty |-> FALSE, type |-> "time"],
     UpdatedAt |-> [key |-> "updated_at", omitempty |-> FALSE, type |-> "time"],
     Description |-> [key |-> "description", omitempty |-> TRUE, type |-> "string"],
     Icon |-> [key |-> "icon", omitempty |-> TRUE, type |-> "string"],
     IsActive |-> [key |-> "is_active", omitempty |-> FALSE, type |-> "bool"]]

Release_tags ==
    [ID |-> [key |-> "id", omitempty |-> FALSE, type |-> "string"],
     ApplicationID |-> [key |-> "application_id", omitempty |-> FALSE, type |-> "string"],
     Version |-> [key |-> "version", omitempty |-> FALSE, type |-> "string"],
     Sequence |-> [key |-> "sequence", omitempty |-> FALSE, type |-> "int"],
     CreatedAt |-> [key |-> "created_at", omitempty |-> FALSE, type |-> "time"],
     UpdatedAt |-> [key |-> "updated_at", omitempty |-> FALSE, type |-> "time"],
     ReleasedAt |-> [key |-> "released_at", omitempty |-> TRUE, type |-> "timeptr"],
     Notes |-> [key |-> "notes", omitempty |-> TRUE, type |-> "string"],
     Metadata |-> [key |-> "metadata", omitempty |-> TRUE, type |-> "map"],
     IsRequired |-> [key |-> "is_required", omitempty |-> FALSE, type |-> "bool"],
     IsPrerelease |-> [key |-> "is_prerelease", omitempty |-> FALSE, type |-> "bool"],
     Status |-> [key |-> "status", omitempty |-> FALSE, type |-> "word"],
     Config |-> [key |-> "config", omitempty |-> TRUE, type |-> "string"]]

Channel_tags ==
    [ID |-> [key |-> "id", omitempty |-> FALSE, type |-> "string"],
     ApplicationID |-> [key |-> "application_id", omitempty |-> FALSE, type |-> "string"],
     Name |-> [key |-> "name", omitempty |-> FALSE, type |-> "string"],
     Description |-> [key |-> "description", omitempty |-> TRUE, type |-> "string"],
     ReleaseID |-> [key |-> "release_id", omitempty |-> TRUE, type |-> "string"],
     ReleaseSequence |-> [key |-> "release_sequence", omitempty |-> TRUE, type |-> "int"],
     CreatedAt |-> [key |-> "created_at", omitempty |-> FALSE, type |-> "time"],
     UpdatedAt |-> [key |-> "updated_at", omitempty |-> FALSE, type |-> "time"],
     ArchivedAt |-> [key |-> "archived_at", omitempty |-> TRUE, type |-> "timeptr"],
     IsDefault |-> [key |-> "is_default", omitempty |-> FALSE, type |-> "bool"],
     IsArchived |-> [key |-> "is_archived", omitempty |-> FALSE, type |-> "bool"],
     ChannelSlug |-> [key |-> "channel_slug", omitempty |-> FALSE, type |-> "string"]]

Customer_tags ==
    [ID |-> [key |-> "id", omitempty |-> FALSE, type |-> "string"],
     ApplicationID |-> [key |-> "application_id", omitempty |-> FALSE, type |-> "string"],
     Name |-> [key |-> "name", omitempty |-> FALSE, type |-> "string"],
     Email |-> [key |-> "email", omitempty |-> TRUE, type |-> "string"],
     ChannelID |-> [key |-> "channel_id", omitempty |-> FALSE, type |-> "string"],
     ChannelName |-> [key |-> "channel_name", omitempty |-> TRUE, type |-> "string"],
     CreatedAt |-> [key |-> "created_at", omitempty |-> FALSE, type |-> "time"],
     UpdatedAt |-> [key |-> "updated_at", omitempty |-> FALSE, type |-> "time"],
     ArchivedAt |-> [key |-> "archived_at", omitempty |-> TRUE, type |-> "timeptr"],
     ExpiresAt |-> [key |-> "expires_at", omitempty |-> TRUE, type |-> "timeptr"],
     Type |-> [key |-> "type", omitempty |-> FALSE, type |-> "word"],
     IsArchived |-> [key |-> "is_archived", omitempty |-> FALSE, type |-> "bool"],
     IsGitOpsSupported |-> [key |-> "is_gitops_supported", omitempty |-> FALSE, type |-> "bool"],
     LicenseID |-> [key |-> "license_id", omitempty |-> FALSE, type |-> "string"],
     LicenseType |-> [key |-> "license_type", omitempty |-> FALSE, type |-> "word"],
     Entitlements |-> [key |-> "entitlements", omitempty |-> TRUE, type |-> "map"],
     CustomFields |-> [key |-> "custom_fields", omitempty |-> TRUE, type |-> "map"]]

JSONTags(kind) ==
    CASE kind = "application" -> Application_tags
      [] kind = "release" -> Release_tags
      [] kind = "channel" -> Channel_tags
      [] kind = "customer" -> Customer_tags

\* the string Unmarshal reads back from what Marshal wrote for str: Marshal
\* writes U+FFFD for every byte that is not valid UTF-8
RECURSIVE CoerceUTF8(_)
CoerceUTF8(str) ==
    IF \A i \in DOMAIN str : str[i] # InvalidByte THEN str
    ELSE LET first == CHOOSE i \in DOMAIN str :
                          /\ str[i] = InvalidByte
                          /\ \A j \in 1..(i - 1) : str[j] # InvalidByte
         IN  SubSeq(str, 1, first - 1) \o ReplacementChar
                 \o CoerceUTF8(SubSeq(str, first + 1, Len(str)))

\* the map read back from what Marshal wrote for a map[string]string
CoerceMap(m) ==
    LET keys == {CoerceUTF8(k) : k \in DOMAIN m}
    IN  [key \in keys |-> CoerceUTF8(m[CHOOSE k \in DOMAIN m : CoerceUTF8(k) = key])]

\* the zero value of a field type, which omitempty leaves out and Unmarshal
\* leaves in a field whose key is missing
ZeroOf(type) ==
    CASE type = "string" -> <<>>
      [] type = "word" -> ""
      [] type = "time" -> 0
      [] type = "timeptr" -> NilTime
      [] type = "bool" -> FALSE
      [] type = "int" -> 0
      [] type = "map" -> <<>>

\* omitempty: false, 0, a nil pointer, and a string or map of length 0
IsEmptyValue(v, type) ==
    IF type = "map" THEN DOMAIN v = {} ELSE v = ZeroOf(type)

\* the value under a key, as Unmarshal will read it
EncodeValue(v, type) ==
    CASE type = "string" -> CoerceUTF8(v)
      [] type = "map" -> CoerceMap(v)
      [] OTHER -> v

\* json.Marshal of a model
MarshalEntity(kind, e) ==
    [f \in DOMAIN JSONTags(kind) |->
        IF JSONTags(kind)[f].omitempty /\ IsEmptyValue(e[f], JSONTags(kind)[f].type)
        THEN [present |-> FALSE, value |-> ZeroOf(JSONTags(kind)[f].type)]
        ELSE [present |-> TRUE, value |-> EncodeValue(e[f], JSONTags(kind)[f].type)]]

\* json.Unmarshal into a zero model
UnmarshalEntity(kind, doc) ==
    [f \in DOMAIN JSONTags(kind) |->
        IF doc[f].present THEN doc[f].value ELSE ZeroOf(JSONTags(kind)[f].type)]

-----------------------------------------------------------------------------
(* SpecPure: the pure functions of the program, each applied once to an     *)
(* input drawn from a bounded set.  ent holds the function and its input,   *)
(* verr its result, vpc "ready" before the call and "done" after it.        *)

\* the longest string given to a validator
MaxStringLen == 3

\* the characters of the slugs tried: allowed ones and others
SlugChars == {"a", "z", "0", "-", "A", "_"}

\* the characters of the e-mail addresses tried
EmailChars == {"a", "@", "."}

\* entities whose strings hold a byte that is not valid UTF-8
EntitiesWithInvalidBytes ==
    {[kind |-> "application",
      val |-> [BaseApplication EXCEPT !.Name = <<"A", InvalidByte>>]],
     [kind |-> "customer",
      val |-> [BaseCustomer EXCEPT !.Entitlements = (<<"k">> :> <<InvalidByte>>)]]}

\* Validate returns nil for the entity (in whatever order it visits maps)
PassesValidate(e) ==
    CASE e.kind = "application" -> Application_Validate(e.val) = Nil
      [] e.kind = "release" ->
            \A order \in Orders(e.val.Metadata) : Release_Validate(e.val, order) = Nil
      [] e.kind = "channel" -> Channel_Validate(e.val) = Nil
      [] e.kind = "customer" ->
            \A entOrder \in Orders(e.val.Entitlements) :
            \A cfOrder \in Orders(e.val.CustomFields) :
                Customer_Validate(e.val, entOrder, cfOrder) = Nil

\* the entities that pass Validate
ValidEntities == {e \in Entities \cup EntitiesWithInvalidBytes : PassesValidate(e)}

\* the tokens of the configurations printed: none, and tokens that do and do
\* not occur in the rest of the text
SampleTokens == {<<>>, <<"e">>, <<"s", "e", "t">>, <<"t", "0", "k">>, <<"T", "0", "K">>}

\* the configurations printed
SampleConfigs ==
    [APIToken : SampleTokens,
     LogLevel : {DefaultLogLevel, <<"i", "n", "f", "o">>},
     Timeout : {DefaultTimeout, 60, MaxTimeout},
     Endpoint : {<<>>, <<"https", "://", "e.example.com">>}]

\* the calls of the pure functions
PureCalls ==
    {[kind |-> "isValidSlug", val |-> str] : str \in SeqsUpTo(SlugChars, MaxStringLen)}
    \cup {[kind |-> "isValidChannelSlug", val |-> str] :
             str \in SeqsUpTo(SlugChars, MaxStringLen)}
    \cup {[kind |-> "isValidEmail", val |-> str] :
             str \in SeqsUpTo(EmailChars, MaxStringLen + 1)}
    \cup {[kind |-> "json round trip", val |-> e] : e \in ValidEntities}
    \cup {[kind |-> "Config.String", val |-> c] : c \in SampleConfigs}

InitPure ==
    /\ ent \in PureCalls
    /\ verr = Nil
    /\ vpc = "ready"
    /\ call = IdleCall
    /\ server = IdleServer
    /\ wire = <<>>
    /\ outcome = NoOutcome
    /\ logs = <<>>
    /\ svc = <<>>
    /\ pc = "idle"
    /\ running = [g \in Goroutines |-> IdleFrame]
    /\ shared = ServerFields
    /\ proc = IdleProcess
    /\ stdout = <<>>
    /\ stderr = <<>>

ApplyIsValidSlug ==
    /\ vpc = "ready"
    /\ ent.kind = "isValidSlug"
    /\ verr' = isValidSlug(ent.val)
    /\ vpc' = "done"
    /\ UNCHANGED ent
    /\ ServiceUnchanged

ApplyIsValidChannelSlug ==
    /\ vpc = "ready"
    /\ ent.kind = "isValidChannelSlug"
    /\ verr' = isValidChannelSlug(ent.val)
    /\ vpc' = "done"
    /\ UNCHANGED ent
    /\ ServiceUnchanged

ApplyIsValidEmail ==
    /\ vpc = "ready"
    /\ ent.kind = "isValidEmail"
    /\ verr' = isValidEmail(ent.val)
    /\ vpc' = "done"
    /\ UNCHANGED ent
    /\ ServiceUnchanged

\* json.Marshal of an entity, then json.Unmarshal of the document
RoundTripJSON ==
    /\ vpc = "ready"
    /\ ent.kind = "json round trip"
    /\ verr' = UnmarshalEntity(ent.val.kind, MarshalEntity(ent.val.kind, ent.val.val))
    /\ vpc' = "done"
    /\ UNCHANGED ent
    /\ ServiceUnchanged

\* cfg.String()
ApplyConfigString ==
    /\ vpc = "ready"
    /\ ent.kind = "Config.String"
    /\ verr' = Config_String(ent.val)
    /\ vpc' = "done"
    /\ UNCHANGED ent
    /\ ServiceUnchanged

NextPure ==
    \/ ApplyIsValidSlug
    \/ ApplyIsValidChannelSlug
    \/ ApplyIsValidEmail
    \/ RoundTripJSON
    \/ ApplyConfigString

SpecPure == InitPure /\ [][NextPure]_vars

\* C21: the slug validators of applications and of channels accept a string
\* exactly when it is non-empty, made of a-z, 0-9 and '-' only, and neither
\* starts nor ends with '-'.
C21_SlugAcceptedIffWellFormed ==
    (vpc = "done" /\ ent.kind \in {"isValidSlug", "isValidChannelSlug"}) =>
        (verr <=> WellFormedSlug(ent.val))

\* C21 witness: an application slug with allowed characters only was rejected
\* for its trailing hyphen.
C21_Witness ==
    /\ vpc = "done"
    /\ ent.kind = "isValidSlug"
    /\ ent.val = <<"a", "0", "-">>
    /\ verr = FALSE

\* C21 witness of acceptance: a channel slug with an inner hyphen was accepted.
C21_ChannelSlugAccepted ==
    /\ vpc = "done"
    /\ ent.kind = "isValidChannelSlug"
    /\ ent.val = <<"a", "-", "0">>
    /\ verr = TRUE

\* C22: the e-mail validator accepts a string exactly when it has one '@',
\* text before and after it, and a '.' after it.
C22_EmailAcceptedIffWellFormed ==
    (vpc = "done" /\ ent.kind = "isValidEmail") => (verr <=> WellFormedEmail(ent.val))

\* C22 witness: an address with two '@' was rejected although its first and
\* last parts are non-empty and the last has a '.'.
C22_Witness ==
    /\ vpc = "done"
    /\ ent.kind = "isValidEmail"
    /\ ent.val = <<"a", "@", "@", ".">>
    /\ verr = FALSE

\* C22 witness of acceptance: the shortest accepted address.
C22_EmailAccepted ==
    /\ vpc = "done"
    /\ ent.kind = "isValidEmail"
    /\ ent.val = <<"a", "@", ".">>
    /\ verr = TRUE

\* C23: an entity that passes Validate, encoded to JSON and decoded back, is
\* equal to the original in every field.
C23_RoundTripGivesEqualEntity ==
    (vpc = "done" /\ ent.kind = "json round trip") =>
        \A f \in DOMAIN ent.val.val : verr[f] = ent.val.val[f]

\* C23 for entities whose strings are valid UTF-8: the round trip gives an
\* equal entity.
C23_RoundTripOfValidUTF8 ==
    (vpc = "done" /\ ent.kind = "json round trip"
        /\ ent.val \notin EntitiesWithInvalidBytes) =>
        \A f \in DOMAIN ent.val.val : verr[f] = ent.val.val[f]

\* C23: a customer with entitlements, an e-mail address and an expiry came
\* back equal from the round trip.
C23_CustomerCameBackEqual ==
    /\ vpc = "done"
    /\ ent.kind = "json round trip"
    /\ ent.val.kind = "customer"
    /\ DOMAIN ent.val.val.Entitlements # {}
    /\ verr = ent.val.val

\* C23: an application that passes Validate came back with another name.
C23_NameChanged ==
    /\ vpc = "done"
    /\ ent.kind = "json round trip"
    /\ ent.val.kind = "application"
    /\ verr.Name # ent.val.val.Name

-----------------------------------------------------------------------------
(* C24: the limit and offset a handler passes to the API client.            *)

\* mcp.Min and mcp.Max of the limit and offset arguments in the tool schemas
SchemaMinLimit == 1
SchemaMaxListLimit == 100
SchemaMaxSearchLimit == 50
SchemaMinOffset == 0

\* the largest limit the schema of the finished call's tool declares
SchemaMaxLimit ==
    IF call.kind = "search" THEN SchemaMaxSearchLimit ELSE SchemaMaxListLimit

\* the calls of list and search operations the finished handler made
PagedCalls == {i \in DOMAIN svc : svc[i].paged}

\* C24: the limit and offset a handler passes to the API client lie within
\* the bounds of the tool's schema: limit in 1..100 for list tools and 1..50
\* for search tools, offset at least 0.
C24_PassedValuesWithinSchema ==
    (pc = "done" /\ call.layer = "handler") =>
        \A i \in PagedCalls :
            /\ svc[i].limit >= SchemaMinLimit
            /\ svc[i].limit <= SchemaMaxLimit
            /\ svc[i].offset >= SchemaMinOffset

\* C24, what the handlers do pass: the limit argument cut to an integer, or
\* 10 when it is missing or not a number; for list tools the offset argument
\* cut to an integer, or 0; for search tools offset 0.
C24_PassedValuesAreTheArguments ==
    (pc = "done" /\ call.layer = "handler") =>
        \A i \in PagedCalls :
            /\ svc[i].limit = ListLimitArgument
            /\ svc[i].offset = (IF call.kind = "search" THEN 0 ELSE OffsetArgument)

\* C24: a list tool passed a limit below 1 to the client.
C24_LimitBelowOnePassed ==
    /\ pc = "done"
    /\ call.layer = "handler"
    /\ call.kind = "list"
    /\ \E i \in PagedCalls : svc[i].limit < SchemaMinLimit

\* C24: a list tool passed an offset below 0 to the client.
C24_NegativeOffsetPassed ==
    /\ pc = "done"
    /\ call.layer = "handler"
    /\ call.kind = "list"
    /\ \E i \in PagedCalls : svc[i].offset < SchemaMinOffset

\* C24: a search tool passed a limit above 50 to the client.
C24_LimitAboveMaximumPassed ==
    /\ pc = "done"
    /\ call.layer = "handler"
    /\ call.kind = "search"
    /\ \E i \in PagedCalls : svc[i].limit > SchemaMaxSearchLimit

-----------------------------------------------------------------------------
(* C25: the range Client.ListApplications selects from the list.            *)

\* the bounds [start:end] of the slice expression Client.ListApplications
\* evaluates for a list of n applications; with no slice expression (an empty
\* new list, or the list left whole) the bounds of what it returns
PageRange(limit, offset, n) ==
    IF offset > 0 /\ offset < n
    THEN IF offset + limit <= n
         THEN [start |-> offset, end |-> offset + limit]
         ELSE [start |-> offset, end |-> n]
    ELSE IF offset >= n
         THEN [start |-> 0, end |-> 0]
         ELSE IF limit > 0 /\ limit < n
              THEN [start |-> 0, end |-> limit]
              ELSE [start |-> 0, end |-> n]

\* Client.ListApplications was called and the API returned a list
ListApplicationsGotList ==
    /\ pc = "done"
    /\ call.op = "Client.ListApplications"
    /\ ApplicationService_ListApplications(Ptr([ExcludeChannels |-> FALSE]), server).err = Nil

\* the applications in the list the API returned
ReturnedListLength ==
    Len(ApplicationService_ListApplications(Ptr([ExcludeChannels |-> FALSE]), server)
            .val[1].Applications)

\* the range selected in the finished Client.ListApplications call
SelectedRange == PageRange(call.limit, call.offset, ReturnedListLength)

\* C25: for every limit and offset and every list the API returns,
\* Client.ListApplications selects a range inside the list
\* (0 <= start <= end <= length) and returns normally.
C25_RangeInsideListAndReturns ==
    ListApplicationsGotList =>
        /\ 0 <= SelectedRange.start
        /\ SelectedRange.start <= SelectedRange.end
        /\ SelectedRange.end <= ReturnedListLength
        /\ ~outcome.panic

\* C25 for limit >= 0 (and offset + limit within the range of int, as all
\* sampled values are): the range lies inside the list and the call returns
\* the applications of that range.
C25_RangeInsideListForLimitFromZero ==
    (ListApplicationsGotList /\ call.limit >= 0) =>
        /\ 0 <= SelectedRange.start
        /\ SelectedRange.start <= SelectedRange.end
        /\ SelectedRange.end <= ReturnedListLength
        /\ ~outcome.panic
        /\ Len(outcome.val[1].Applications) = SelectedRange.end - SelectedRange.start

\* C25: the call panics exactly when the range is not inside the list.
C25_PanicIffRangeOutside ==
    ListApplicationsGotList =>
        (outcome.panic <=>
            ~(/\ 0 <= SelectedRange.start
              /\ SelectedRange.start <= SelectedRange.end
              /\ SelectedRange.end <= ReturnedListLength))

\* C25: a call with a negative limit selected a range that ends before it
\* starts, and panicked.
C25_RangeEndsBeforeStart ==
    /\ ListApplicationsGotList
    /\ call.limit < 0
    /\ SelectedRange.end < SelectedRange.start
    /\ outcome.panic

\* C25: a call with offset and limit inside a list of two returned one item.
C25_InnerRangeReturned ==
    /\ ListApplicationsGotList
    /\ call.offset = 1
    /\ call.limit = 1
    /\ ReturnedListLength = 2
    /\ ~outcome.panic
    /\ Len(outcome.val[1].Applications) = 1

-----------------------------------------------------------------------------
(* C26: what follows a shutdown signal.                                     *)

\* the process with the steps of runServer that need nothing from outside
\* always taken in the end: loading the configuration, starting the server,
\* leaving with an error.  The arrival of a request or a signal and the
\* return of ServeStdio wait for the outside, so they are not forced.
SpecProcessFair ==
    /\ SpecProcess
    /\ WF_vars(LoadConfig)
    /\ WF_vars(ExitWithError)
    /\ WF_vars(StartServer)

\* runServer logged "Server shutdown complete" and returned nil
ShutdownComplete == proc.pc = "exited" /\ proc.returned = "nil"

\* C26: after SIGINT or SIGTERM is received, Server.Start eventually returns
\* and runServer logs the shutdown as complete and returns.
C26_SignalLeadsToShutdownComplete == proc.signalled ~> ShutdownComplete

\* C26, the part the code does: a process that is started with a loadable
\* configuration eventually serves.
C26_LoadedLeadsToServing == (proc.pc = "loaded") ~> (proc.pc = "serving")

\* C26: the signal was received and its context cancelled, tool calls were
\* answered, and Start has not returned.
C26_ServingAfterSignal ==
    /\ proc.signalled
    /\ proc.pc = "serving"
    /\ proc.served = MaxCalls

\* C26: runServer returned an error after the signal was received.
C26_ErrorAfterSignal ==
    /\ proc.signalled
    /\ proc.pc = "exited"
    /\ proc.returned = "error"

-----------------------------------------------------------------------------
(* C27: the identifiers in the request path.  A path is a sequence of the   *)
(* fixed parts the operation writes ("/v3/app/", "/releases", ...), the     *)
(* characters of the identifiers, and the query the operation appends: "?", *)
(* then the name of a parameter ("limit=", "offset=", ...) and its value.   *)

\* a Get or List operation put a request on the wire
GetOrListRequestSent ==
    /\ pc = "done"
    /\ call.kind \in {"get", "list"}
    /\ Len(wire) = 1

\* the path of that request
RequestPath == wire[1].path

\* the positions where a character of an identifier ends a path segment
SegmentsAdded == {i \in DOMAIN RequestPath : RequestPath[i] = "/"}

\* the positions where a character of an identifier starts a query: a "?"
\* that is not the one the operation writes before its limit and offset
QueriesAdded ==
    {i \in DOMAIN RequestPath :
        /\ RequestPath[i] = "?"
        /\ ~(i < Len(RequestPath) /\ RequestPath[i + 1] \in
                {"limit=", "offset=", "page=", "page_size=", "excludeChannels=true"})}

\* C27: in every Get and List request each identifier stays within its one
\* path segment: it adds no path segment and no query parameter.
C27_IdentifierIsOneSegment ==
    GetOrListRequestSent => (SegmentsAdded = {} /\ QueriesAdded = {})

\* C27 for releases, channels and customers: their Get and List requests keep
\* each identifier within one segment.
C27_EscapedIdentifierIsOneSegment ==
    (GetOrListRequestSent /\ call.entity # "application") =>
        (SegmentsAdded = {} /\ QueriesAdded = {})

\* C27: a release was requested with an identifier that holds "/" and the
\* path carries it escaped.
C27_EscapedSeparatorSent ==
    /\ GetOrListRequestSent
    /\ call.entity = "release"
    /\ call.kind = "get"
    /\ call.id = <<"x", "/", "y">>
    /\ \E i \in DOMAIN RequestPath : RequestPath[i] = "%2F"

\* C27: an application was requested with an identifier that holds "?" and
\* the path carries it as the start of a query.
C27_QueryAddedToApplicationRequest ==
    /\ GetOrListRequestSent
    /\ call.entity = "application"
    /\ call.kind = "get"
    /\ call.id = <<"x", "?", "y">>
    /\ QueriesAdded # {}

-----------------------------------------------------------------------------
(* C28: what the client-side searches return.                               *)

\* the client-side searches: they call List and filter what it returned
ClientSideSearches ==
    {"ApplicationService.SearchApplications", "ChannelService.Search", "CustomerService.Search"}

\* the fields a client-side search looks at, by entity
SearchedFields ==
    [application |-> {"Name", "Slug", "Description"},
     channel |-> {"Name", "Slug", "Description"},
     customer |-> {"Name", "Email", "Type", "Status", "LicenseID", "ChannelName"}]

\* str in lower case
LowerCased(str) ==
    [i \in DOMAIN str |-> IF str[i] \in DOMAIN LowerOf THEN LowerOf[str[i]] ELSE str[i]]

\* str without the white space at its ends
Trimmed(str) ==
    LET inner == {i \in DOMAIN str : str[i] \notin WhiteSpace}
    IN  IF inner = {} THEN <<>>
        ELSE SubSeq(str, CHOOSE i \in inner : \A j \in inner : i <= j,
                         CHOOSE i \in inner : \A j \in inner : i >= j)

\* sub occurs in str
IsSubstring(sub, str) ==
    \E start \in 1..(Len(str) + 1) :
        /\ start + Len(sub) - 1 <= Len(str)
        /\ \A k \in 1..Len(sub) : str[start + k - 1] = sub[k]

\* a client-side search returned a result
ClientSideSearchSucceeded ==
    /\ pc = "done"
    /\ call.op \in ClientSideSearches
    /\ ~outcome.panic
    /\ outcome.err = Nil

\* the items the finished search returned
SearchResultItems ==
    IF call.entity = "application" THEN outcome.val[1].Applications
    ELSE outcome.val[1].Data

\* the items of the List response that the query of the finished search
\* matches, in list order
MatchingItems ==
    LET wanted == LowerCased(Trimmed(call.query))
        Matches(item) ==
            \E f \in SearchedFields[call.entity] : IsSubstring(wanted, LowerCased(item[f]))
    IN  SelectSeq(server.body.list, Matches)

C28_ApplicationSearchFiltered ==
    /\ ClientSideSearchSucceeded
    /\ call.entity = "application"
    /\ call.query = <<" ", "W", " ">>
    /\ Len(SearchResultItems) = 1
    /\ Len(server.body.list) = 2

-----------------------------------------------------------------------------
(* C29: the string form of the configuration and the token.                 *)

\* the string of a configuration with a token was computed
TokenConfigPrinted ==
    /\ vpc = "done"
    /\ ent.kind = "Config.String"
    /\ ent.val.APIToken # <<>>

\* configurations that differ only in the value of a non-empty token have
\* the same string
SameStringForEveryToken ==
    \A other \in SampleTokens \ {<<>>} :
        Config_String([ent.val EXCEPT !.APIToken = other]) = verr

C29_TokenTextInString ==
    /\ TokenConfigPrinted
    /\ ent.val.APIToken = <<"s", "e", "t">>
    /\ IsSubstring(ent.val.APIToken, verr)

-----------------------------------------------------------------------------
(* C30: the requests of the tools.                                          *)

\* a tool handler ran to its end
ToolCallFinished == pc = "done" /\ call.layer = "handler"

\* C30: every HTTP request issued for a tool call is a GET request whose
\* Authorization header is the configured API token.
C30_ToolRequestsAreAuthorizedGets ==
    ToolCallFinished =>
        \A i \in DOMAIN wire :
            /\ wire[i].method = "GET"
            /\ wire[i].headers.Authorization = APIToken

\* C30 witness: a tool call sent a request and got its answer.
C30_Witness ==
    /\ ToolCallFinished
    /\ call.op = "get_customer"
    /\ Len(wire) = 1
    /\ wire[1].method = "GET"
    /\ outcome.err = Nil

\* C30: a tool call whose request met a transport error had sent the token.
C30_FailedRequestCarriedToken ==
    /\ ToolCallFinished
    /\ server.kind = "transport_error"
    /\ Len(wire) = 1
    /\ wire[1].headers.Authorization = APIToken

====
